---------------------------- MODULE Spec2Model ----------------------------
(***************************************************************************)
(* The styling engine of lggs (src/src/libs/formatkits.ts): the format     *)
(* kits, sprintf and LoggingsFormatKitController.                          *)
(*                                                                         *)
(* A string is a sequence of characters; a character is a one-letter       *)
(* TLA+ string, the control byte 0x1B being written "ESC".                 *)
(***************************************************************************)
EXTENDS Integers, Sequences, FiniteSets, TLC

(***************************************************************************)
(* Strings                                                                 *)
(***************************************************************************)
ESC == "ESC"

Max(a, b) == IF a >= b THEN a ELSE b

Min(a, b) == IF a <= b THEN a ELSE b

\* The classes of the regular expressions.
WordChars ==
  { "a","b","c","d","e","f","g","h","i","j","k","l","m","n","o","p","q","r",
    "s","t","u","v","w","x","y","z","A","B","C","D","E","F","G","H","I","J",
    "K","L","M","N","O","P","Q","R","S","T","U","V","W","X","Y","Z","0","1",
    "2","3","4","5","6","7","8","9","_" }

Letters == WordChars \ {"0","1","2","3","4","5","6","7","8","9","_"}

\* What `.` does not match.
LineTerminators == { "\n", "\r" }

DigitChar(d) == <<"0","1","2","3","4","5","6","7","8","9">>[d + 1]

\* String(n) of a natural number.
RECURSIVE NatStr(_)
NatStr(n) == IF n < 10 THEN <<DigitChar(n)>>
             ELSE NatStr(n \div 10) \o <<DigitChar(n % 10)>>

\* String(n) of an integer.
IntStr(n) == IF n < 0 THEN <<"-">> \o NatStr(0 - n) ELSE NatStr(n)

RECURSIVE Concat(_)
Concat(ss) == IF ss = <<>> THEN <<>> ELSE Head(ss) \o Concat(Tail(ss))

\* Array.prototype.join
RECURSIVE Join(_, _)
Join(ss, sep) ==
  IF ss = <<>> THEN <<>>
  ELSE IF Len(ss) = 1 THEN ss[1]
  ELSE ss[1] \o sep \o Join(Tail(ss), sep)

Reverse(s) == [i \in 1..Len(s) |-> s[Len(s) + 1 - i]]

\* Whether pat stands in s at position i.
OccursAt(s, pat, i) ==
  /\ i >= 1
  /\ i + Len(pat) - 1 <= Len(s)
  /\ \A k \in 1..Len(pat) : s[i + k - 1] = pat[k]

\* String.prototype.indexOf, 1-based; 0 when pat does not occur.
IndexOf(s, pat) ==
  LET hits == { i \in 1..(Len(s) + 1) : OccursAt(s, pat, i) }
  IN  IF hits = {} THEN 0 ELSE CHOOSE i \in hits : \A j \in hits : i <= j

\* GetSubstitution of ECMAScript for a pattern without capture groups: the
\* replacement template tmpl of String.prototype.replace(string, string).
RECURSIVE GetSubstitution(_, _, _, _)
GetSubstitution(tmpl, matched, before, after) ==
  IF tmpl = <<>> THEN <<>>
  ELSE IF tmpl[1] = "$" /\ Len(tmpl) >= 2 /\ tmpl[2] \in {"$", "&", "`", "'"}
  THEN (CASE tmpl[2] = "$" -> <<"$">>
          [] tmpl[2] = "&" -> matched
          [] tmpl[2] = "`" -> before
          [] tmpl[2] = "'" -> after)
       \o GetSubstitution(SubSeq(tmpl, 3, Len(tmpl)), matched, before, after)
  ELSE <<tmpl[1]>> \o GetSubstitution(Tail(tmpl), matched, before, after)

\* s.replace(pat, tmpl) with a string pattern and a string replacement: the
\* first occurrence of pat is replaced by the expanded template.
StringReplace(s, pat, tmpl) ==
  LET i == IndexOf(s, pat)
  IN  IF i = 0 THEN s
      ELSE LET before == SubSeq(s, 1, i - 1)
               after  == SubSeq(s, i + Len(pat), Len(s))
           IN  before \o GetSubstitution(tmpl, pat, before, after) \o after


(***************************************************************************)
(* Escape sequences and the palette                                        *)
(***************************************************************************)
\* rgb_converter: each channel clamped to 0..255, "48" for a background.
rgb_converter(background, r, g, b) ==
  <<ESC, "[">> \o (IF background THEN <<"4","8">> ELSE <<"3","8">>) \o <<";","2",";">>
    \o NatStr(Min(255, Max(0, r))) \o <<";">>
    \o NatStr(Min(255, Max(0, g))) \o <<";">>
    \o NatStr(Min(255, Max(0, b))) \o <<"m">>

\* rgb(r, g, b)(bg)
rgb(r, g, b, bg) == rgb_converter(bg, r, g, b)

\* LoggingsAnsiSpecials.reset and .bold
AnsiReset == <<ESC, "[", "0", "m">>

AnsiBold == <<ESC, "[", "1", "m">>

N_red == <<"r","e","d">>

N_blue == <<"b","l","u","e">>

N_green == <<"g","r","e","e","n">>

N_yellow == <<"y","e","l","l","o","w">>

N_magenta == <<"m","a","g","e","n","t","a">>

N_cyan == <<"c","y","a","n">>

N_white == <<"w","h","i","t","e">>

N_bold == <<"b","o","l","d">>

N_strikethrough == <<"s","t","r","i","k","e","t","h","r","o","u","g","h">>

N_italic == <<"i","t","a","l","i","c">>

N_underline == <<"u","n","d","e","r","l","i","n","e">>

N_blink == <<"b","l","i","n","k">>

N_reverse == <<"r","e","v","e","r","s","e">>

\* The colour names of the palette, in the order the nesting tests use them.
ColorNames == <<N_red, N_blue, N_green, N_yellow, N_magenta, N_cyan>>

\* The palette's 24-bit colour of a name; an unknown name falls back to the
\* fallback colour (white).
PalletRGB(name) ==
  CASE name = N_red     -> <<255, 0, 0>>
    [] name = N_blue    -> <<0, 0, 255>>
    [] name = N_green   -> <<0, 255, 0>>
    [] name = N_yellow  -> <<255, 255, 0>>
    [] name = N_magenta -> <<255, 0, 255>>
    [] name = N_cyan    -> <<0, 255, 255>>
    [] OTHER            -> <<255, 255, 255>>

\* The single-parameter SGR code of a style name, 0 for a name that is none.
StyleCode(name) ==
  CASE name = N_bold          -> 1
    [] name = N_italic        -> 3
    [] name = N_underline     -> 4
    [] name = N_blink         -> 5
    [] name = N_reverse       -> 7
    [] name = N_strikethrough -> 9
    [] OTHER                  -> 0

\* The escape sequence a name resolves to.
ColorEscape(name) ==
  IF StyleCode(name) # 0
  THEN <<ESC, "[">> \o NatStr(StyleCode(name)) \o <<"m">>
  ELSE LET c == PalletRGB(name) IN rgb(c[1], c[2], c[3], FALSE)

\* colorpik(name, text): the text wrapped with the escape of the name and a
\* trailing reset.
colorpik(name, text) == ColorEscape(name) \o text \o AnsiReset

(***************************************************************************)
(* The legacy bracket kit, LOGGINGS_FORMATKITS[0]                          *)
(***************************************************************************)
\* `<__LOGGINGS_$${count}>`
Placeholder(count) ==
  <<"<","_","_","L","O","G","G","I","N","G","S","_","$">> \o NatStr(count) \o <<">">>

\* The end of the longest run of word characters of s that starts at i
\* (i - 1 when s[i] is none).
RECURSIVE WordRunEnd(_, _)
WordRunEnd(s, i) ==
  IF i <= Len(s) /\ s[i] \in WordChars THEN WordRunEnd(s, i + 1) ELSE i - 1

\* The first index >= i of s that holds a character of set, 0 when none does.
RECURSIVE FirstOf(_, _, _)
FirstOf(s, i, set) ==
  IF i > Len(s) THEN 0
  ELSE IF s[i] \in set THEN i
  ELSE FirstOf(s, i + 1, set)

\* Whether /\[([^\[\]]+)\]\.(\w+)(-b)?/ matches s at position i.
TagMatchesAt(s, i) ==
  /\ i <= Len(s)
  /\ s[i] = "["
  /\ LET j == FirstOf(s, i + 1, {"[", "]"})
     IN  /\ j > i + 1
         /\ s[j] = "]"
         /\ j + 2 <= Len(s)
         /\ s[j + 1] = "."
         /\ s[j + 2] \in WordChars

\* The match of the pattern at i: [matched, value, key, boldFlag].
TagMatch(s, i) ==
  LET j    == FirstOf(s, i + 1, {"[", "]"})
      k    == WordRunEnd(s, j + 2)
      bold == OccursAt(s, <<"-", "b">>, k + 1)
      e    == IF bold THEN k + 2 ELSE k
  IN  [ matched |-> SubSeq(s, i, e),
        value   |-> SubSeq(s, i + 1, j - 1),
        key     |-> SubSeq(s, j + 2, k),
        bold    |-> bold ]

\* pattern.exec(output) with lastIndex 0: the start of the leftmost match,
\* 0 when there is none.
PatternExec(s) ==
  LET hits == { i \in 1..Len(s) : TagMatchesAt(s, i) }
  IN  IF hits = {} THEN 0 ELSE CHOOSE i \in hits : \A j \in hits : i <= j

\* fragment(input): the sweep that replaces every match by a placeholder
\* and records it. The state of the loop is [output, counter, fragments].
RECURSIVE fragment(_)
fragment(st) ==
  LET i == PatternExec(st.output)
  IN  IF i = 0 THEN st
      ELSE LET m == TagMatch(st.output, i)
           IN  fragment(
                 [ output    |-> StringReplace(st.output, m.matched,
                                               Placeholder(st.counter)),
                   counter   |-> st.counter + 1,
                   fragments |-> Append(st.fragments,
                                   [ key   |-> m.key,
                                     count |-> st.counter,
                                     value |-> m.value,
                                     bold  |-> m.bold ]) ])

\* The bold escape put in front of the colour wrap instead of inside it.
Fragmented_BoldOutside(nocolor, frag) ==
  IF nocolor THEN frag.value
  ELSE (IF frag.bold THEN AnsiBold ELSE <<>>) \o colorpik(frag.key, frag.value)

\* The rendered text of one fragment.
Fragmented(nocolor, frag) ==
  LET withBold == IF frag.bold /\ ~nocolor THEN AnsiBold \o frag.value
                  ELSE frag.value
  IN  IF nocolor THEN withBold ELSE colorpik(frag.key, withBold)

\* fragments.reverse().forEach(...): frags is already reversed.
RECURSIVE Unwind(_, _, _)
Unwind(nocolor, frags, result) ==
  IF frags = <<>> THEN result
  ELSE Unwind(nocolor, Tail(frags),
              StringReplace(result, Placeholder(Head(frags).count),
                            Fragmented(nocolor, Head(frags))))

\* The unwind without fragments.reverse(): first fragment first.
LegacyKit_ForwardUnwind(nocolor, input) ==
  LET st == fragment([output |-> input, counter |-> 0, fragments |-> <<>>])
  IN  Unwind(nocolor, st.fragments, st.output)

LegacyKit(nocolor, input) ==
  LET st == fragment([output |-> input, counter |-> 0, fragments |-> <<>>])
  IN  Unwind(nocolor, Reverse(st.fragments), st.output)

(***************************************************************************)
(* LoggingsFormatParser and the inline marker kits                         *)
(***************************************************************************)
\* Whether the regular expression d(.*?)d matches s at position i: the
\* next d after i ends the match, and `.` matches no line terminator.
InlineMatchesAt(s, d, i) ==
  /\ i <= Len(s)
  /\ s[i] = d
  /\ LET j == FirstOf(s, i + 1, {d} \cup LineTerminators)
     IN  j # 0 /\ s[j] = d

\* The kit with a callback that styles whatever nocolor is.
InlineKit_AlwaysStyles(d, style, nocolor, text) ==
  LET hits == { i \in 1..Len(text) : InlineMatchesAt(text, d, i) }
  IN  IF hits = {} THEN text
      ELSE LET i     == CHOOSE x \in hits : \A y \in hits : x <= y
               j     == FirstOf(text, i + 1, {d})
               inner == SubSeq(text, i + 1, j - 1)
           IN  SubSeq(text, 1, i - 1) \o colorpik(style, inner)
                 \o SubSeq(text, j + 1, Len(text))

\* LoggingsFormatParser(d + "(.*?)" + d, cb): the regular expression has no
\* g flag, so replace rewrites the leftmost match only; the callback's
\* result is inserted as it is.
InlineKit(d, style, nocolor, text) ==
  LET hits == { i \in 1..Len(text) : InlineMatchesAt(text, d, i) }
  IN  IF hits = {} THEN text
      ELSE LET i     == CHOOSE x \in hits : \A y \in hits : x <= y
               j     == FirstOf(text, i + 1, {d})
               inner == SubSeq(text, i + 1, j - 1)
           IN  SubSeq(text, 1, i - 1)
                 \o (IF nocolor THEN inner ELSE colorpik(style, inner))
                 \o SubSeq(text, j + 1, Len(text))

(***************************************************************************)
(* GradientFunction and the gradient kits                                  *)
(***************************************************************************)
\* One multi-codepoint emoji, a single display unit.
EMOJI == "EMOJI"

\* toHexadecimal(name): the 24-bit number of a colour name.
toHexadecimal(name) ==
  LET c == PalletRGB(name) IN c[1] * 65536 + c[2] * 256 + c[3]

\* String.prototype.split with a one-character separator.
RECURSIVE Split(_, _)
Split(s, sep) ==
  LET i == FirstOf(s, 1, {sep})
  IN  IF i = 0 THEN <<s>>
      ELSE <<SubSeq(s, 1, i - 1)>> \o Split(SubSeq(s, i + 1, Len(s)), sep)

\* String.prototype.trim
RECURSIVE Trim(_)
Trim(s) ==
  IF s = <<>> THEN s
  ELSE IF s[1] = " " THEN Trim(Tail(s))
  ELSE IF s[Len(s)] = " " THEN Trim(SubSeq(s, 1, Len(s) - 1))
  ELSE s

\* Math.ceil(a / b) for a >= 0, b > 0.
CeilDiv(a, b) == (a + b - 1) \div b

\* Math.round(n / d) for d > 0: halves go up.
RoundDiv(n, d) == (2 * n + d) \div (2 * d)

\* The lookup one stop too far.
StopAt_Next(colors, index) ==
  IF index + 2 <= Len(colors) THEN colors[index + 2] ELSE 0

\* colors[index] of the array of stops: a missing element reads undefined,
\* whose channels all come out 0.
StopAt(colors, index) ==
  IF index + 1 <= Len(colors) THEN colors[index + 1] ELSE 0

\* The channel with colorA and colorB taken the other way round.
Channel_FromLast(a, b, num, den) == RoundDiv(b * den + (a - b) * num, den)

\* One channel of interpolate(colorA, colorB, factor), factor = num / den.
Channel(a, b, num, den) == RoundDiv(a * den + (b - a) * num, den)

\* interpolate(colorA, colorB, factor) with factor = num / den.
interpolate(colorA, colorB, num, den) ==
  LET rA == (colorA \div 65536) % 256
      gA == (colorA \div 256) % 256
      bA == colorA % 256
      rB == (colorB \div 65536) % 256
      gB == (colorB \div 256) % 256
      bB == colorB % 256
  IN  rgb(Channel(rA, rB, num, den), Channel(gA, gB, num, den),
          Channel(bA, bB, num, den), FALSE)

\* The stops of the colour list: a single stop is duplicated.
GradientStops(colorsArg) ==
  LET splited == Split(colorsArg, ",")
      two     == IF Len(splited) = 1 THEN <<splited[1], splited[1]>> ELSE splited
  IN  [i \in 1..Len(two) |-> toHexadecimal(Trim(two[i]))]

\* The loop over the display units: chars from position p on, charIndex
\* scalar units already coloured.
RECURSIVE GradientLoop(_, _, _, _, _)
GradientLoop(chars, p, charIndex, colors, section_length) ==
  IF p > Len(chars) THEN <<>>
  ELSE IF chars[p] = EMOJI
  THEN <<chars[p]>> \o GradientLoop(chars, p + 1, charIndex, colors, section_length)
  ELSE LET index  == charIndex \div section_length
           num    == charIndex - index * section_length
           colorA == StopAt(colors, index)
           colorB == StopAt(colors, Min(index + 1, Len(colors) - 1))
       IN  interpolate(colorA, colorB, num, section_length) \o <<chars[p]>>
             \o GradientLoop(chars, p + 1, charIndex + 1, colors, section_length)

GradientFunction(nocolor, text, colorsArg) ==
  IF nocolor THEN text
  ELSE LET colors         == GradientStops(colorsArg)
           textLength     == Cardinality({ i \in 1..Len(text) : text[i] # EMOJI })
           sections       == Len(colors) - 1
           section_length == CeilDiv(textLength, sections)
       IN  GradientLoop(text, 1, 0, colors, section_length) \o AnsiReset

\* Whether \(([^()]+)\)g<v>\((.*?)\) matches s at position i.
GradientMatchesAt(s, v, i) ==
  /\ i <= Len(s)
  /\ s[i] = "("
  /\ LET j == FirstOf(s, i + 1, {"(", ")"})
     IN  /\ j > i + 1
         /\ s[j] = ")"
         /\ OccursAt(s, <<"g", v, "(">>, j + 1)
         /\ LET m == FirstOf(s, j + 4, {")"} \cup LineTerminators)
            IN  m # 0 /\ s[m] = ")"

\* LoggingsFormatParser("\\(([^()]+)\\)g<v>\\((.*?)\\)", GradientFunction)
GradientKit(v, nocolor, text) ==
  LET hits == { i \in 1..Len(text) : GradientMatchesAt(text, v, i) }
  IN  IF hits = {} THEN text
      ELSE LET i == CHOOSE x \in hits : \A y \in hits : x <= y
               j == FirstOf(text, i + 1, {")"})
               m == FirstOf(text, j + 4, {")"})
           IN  SubSeq(text, 1, i - 1)
                 \o GradientFunction(nocolor, SubSeq(text, i + 1, j - 1),
                                     SubSeq(text, j + 4, m - 1))
                 \o SubSeq(text, m + 1, Len(text))

(***************************************************************************)
(* Values: what a caller may pass as a message or a template argument      *)
(*   [t |-> "str", s |-> chars]   a string                                 *)
(*   [t |-> "num", h |-> n]       the number n / 2                         *)
(*   [t |-> "obj"]                the plain object { a: 1 }                *)
(*   [t |-> "circ"]               { a: 1, b: <itself> }                    *)
(* A number that an operation computes is [nan |-> BOOLEAN, h |-> n].      *)
(***************************************************************************)
StrV(s) == [t |-> "str", s |-> s]

NumV(h) == [t |-> "num", h |-> h]

ObjV == [t |-> "obj"]

CircV == [t |-> "circ"]

NaN == [nan |-> TRUE, h |-> 0]

Num(h) == [nan |-> FALSE, h |-> h]

Digits == {"0","1","2","3","4","5","6","7","8","9"}

DigitVal(c) == CHOOSE d \in 0..9 : DigitChar(d) = c

\* The value of a run of digits.
RECURSIVE DigitsVal(_)
DigitsVal(s) ==
  IF s = <<>> THEN 0
  ELSE 10 * DigitsVal(SubSeq(s, 1, Len(s) - 1)) + DigitVal(s[Len(s)])

\* The end of the run of digits of s that starts at i (i - 1 when empty).
RECURSIVE DigitRunEnd(_, _)
DigitRunEnd(s, i) ==
  IF i <= Len(s) /\ s[i] \in Digits THEN DigitRunEnd(s, i + 1) ELSE i - 1

\* String(x) of a number in halves.
NumStr(x) ==
  IF x.nan THEN <<"N","a","N">>
  ELSE IF x.h % 2 = 0 THEN IntStr(x.h \div 2)
  ELSE (IF x.h < 0 THEN <<"-">> ELSE <<>>)
         \o NatStr((IF x.h < 0 THEN 0 - x.h ELSE x.h) \div 2) \o <<".","5">>

\* IF neg THEN -mag ELSE mag
Signed(neg, mag) == IF neg THEN 0 - mag ELSE mag

\* The numeral whose digits are s[from..e]: NaN when it has none.
ParseDigits(s, withFraction, from, e) ==
  IF e < from THEN [x |-> NaN, end |-> 0]
  ELSE [x |-> Num(Signed(s[1] = "-",
                         2 * DigitsVal(SubSeq(s, from, e))
                           + (IF withFraction /\ OccursAt(s, <<".","5">>, e + 1)
                              THEN 1 ELSE 0))),
        end |-> IF withFraction /\ e + 2 <= Len(s) /\ s[e + 1] = "."
                   /\ s[e + 2] \in {"5", "0"}
                THEN e + 2 ELSE e]

ParseFrom(s, withFraction, from) ==
  ParseDigits(s, withFraction, from, DigitRunEnd(s, from))

\* The numeric prefix of s: [sign] digits [".5" | ".0"], as parseFloat
\* reads it (withFraction) or as parseInt does; NaN when there are no digits.
ParsePrefix(s, withFraction) ==
  ParseFrom(Trim(s), withFraction,
            IF Trim(s) # <<>> /\ Trim(s)[1] \in {"-", "+"} THEN 2 ELSE 1)

WholeNumeral(trimmed, p) ==
  IF trimmed = <<>> THEN Num(0)
  ELSE IF ~p.x.nan /\ p.end = Len(trimmed) THEN p.x
  ELSE NaN

\* Number(s) of a string: the whole trimmed string must be a numeral; the
\* empty string is 0.
StringToNumber(s) == WholeNumeral(Trim(s), ParsePrefix(s, TRUE))

\* String(arg)
JsString(arg) ==
  CASE arg.t = "str" -> arg.s
    [] arg.t = "num" -> NumStr(Num(arg.h))
    [] OTHER -> <<"[","o","b","j","e","c","t"," ","O","b","j","e","c","t","]">>

\* Number(arg)
ToNumber(arg) ==
  CASE arg.t = "str" -> StringToNumber(arg.s)
    [] arg.t = "num" -> Num(arg.h)
    [] OTHER -> NaN

\* Math.floor
MathFloor(x) == IF x.nan THEN x ELSE Num(2 * (x.h \div 2))

\* JSON.stringify(arg): [threw |-> BOOLEAN, text |-> chars]
JSONStringify(arg) ==
  CASE arg.t = "str"  -> [threw |-> FALSE, text |-> <<"\"">> \o arg.s \o <<"\"">>]
    [] arg.t = "num"  -> [threw |-> FALSE, text |-> NumStr(Num(arg.h))]
    [] arg.t = "obj"  -> [threw |-> FALSE,
                          text |-> <<"{","\"","a","\"",":","1","}">>]
    [] arg.t = "circ" -> [threw |-> TRUE, text |-> <<>>]

(***************************************************************************)
(* _inspect                                                                *)
(***************************************************************************)
Runtimes == {"Node", "Bun", "Deno", "Browser"}

\* The colour util.inspect gives a primitive.
Paint(colors, code, text) ==
  IF colors
  THEN <<ESC, "[">> \o code \o <<"m">> \o text \o <<ESC, "[", "3", "9", "m">>
  ELSE text

\* util.inspect(msg, {colors, depth: null, compact: false, ...})
Inpector(msg, colors) ==
  CASE msg.t = "str"  -> Paint(colors, <<"3","2">>, <<"'">> \o msg.s \o <<"'">>)
    [] msg.t = "num"  -> Paint(colors, <<"3","3">>, NumStr(Num(msg.h)))
    [] msg.t = "obj"  ->
         <<"{","\n"," "," ","a",":"," ">> \o Paint(colors, <<"3","3">>, <<"1">>)
           \o <<"\n","}">>
    [] msg.t = "circ" ->
         <<"<","r","e","f"," ","*","1",">"," ","{","\n"," "," ","a",":"," ">>
           \o Paint(colors, <<"3","3">>, <<"1">>)
           \o <<",","\n"," "," ","b",":"," ">>
           \o Paint(colors, <<"3","6">>,
                    <<"[","C","i","r","c","u","l","a","r"," ","*","1","]">>)
           \o <<"\n","}">>

\* JSON.stringify(msg, null, 2) of the default branch.
JSONStringify2(msg) ==
  IF msg.t = "obj"
  THEN [threw |-> FALSE, text |-> <<"{","\n"," "," ","\"","a","\"",":"," ","1","\n","}">>]
  ELSE JSONStringify(msg)

\* try { return <json> } catch { return <fallback> }
TryJSON(json, fallback) == IF json.threw THEN fallback ELSE json.text

\* The process is a Node process: Bun and Deno are not defined in it, so
\* with runtime set to Bun or Deno the call of Bun.inspect or Deno.inspect
\* throws inside its try and the catch returns String(msg).
_inspect(rt, msg, nocolor) ==
  IF rt = "Node" THEN Inpector(msg, ~nocolor)
  ELSE IF rt \in {"Bun", "Deno"} THEN JsString(msg)
  ELSE IF msg.t \in {"obj", "circ"}
       THEN TryJSON(JSONStringify2(msg), JsString(msg))
       ELSE JsString(msg)

(***************************************************************************)
(* sprintf                                                                 *)
(***************************************************************************)
\* The directive characters the switch has a case for.
Directives == {"s", "d", "i", "f", "j", "o", "O"}

\* The case 'j' without its try and catch: what JSON.stringify leaves.
Substitute_JsonUnguarded(rt, char, arg, nocolor) ==
  CASE char = "s" -> JsString(arg)
    [] char = "d" -> NumStr(MathFloor(ToNumber(arg)))
    [] char = "i" -> NumStr(ParsePrefix(JsString(arg), FALSE).x)
    [] char = "f" -> NumStr(ParsePrefix(JsString(arg), TRUE).x)
    [] char = "j" -> JSONStringify(arg).text
    [] char \in {"o", "O"} -> _inspect(rt, arg, nocolor)

\* What a case of the switch returns for arg.
Substitute(rt, char, arg, nocolor) ==
  CASE char = "s" -> JsString(arg)
    [] char = "d" -> NumStr(MathFloor(ToNumber(arg)))
    [] char = "i" -> NumStr(ParsePrefix(JsString(arg), FALSE).x)
    [] char = "f" -> NumStr(ParsePrefix(JsString(arg), TRUE).x)
    [] char = "j" -> TryJSON(JSONStringify(arg),
                             <<"[","C","i","r","c","u","l","a","r","]">>)
    [] char \in {"o", "O"} -> _inspect(rt, arg, nocolor)

\* The callback without the `consumed--` of the default case.
Directive_DefaultConsumes(rt, char, args, consumed, nocolor) ==
  IF char = "%" THEN [text |-> <<"%">>, consumed |-> consumed]
  ELSE IF consumed >= Len(args) THEN [text |-> <<"%", char>>, consumed |-> consumed]
  ELSE IF char \in Directives
  THEN [text |-> Substitute(rt, char, args[consumed + 1], nocolor),
        consumed |-> consumed + 1]
  ELSE [text |-> <<"%", char>>, consumed |-> consumed + 1]

\* The callback of format.replace(/%([a-zA-Z%])/g, ...) for the directive
\* character char, consumed arguments so far: [text, consumed].
Directive(rt, char, args, consumed, nocolor) ==
  IF char = "%" THEN [text |-> <<"%">>, consumed |-> consumed]
  ELSE IF consumed >= Len(args) THEN [text |-> <<"%", char>>, consumed |-> consumed]
  ELSE IF char \in Directives
  THEN [text |-> Substitute(rt, char, args[consumed + 1], nocolor),
        consumed |-> consumed + 1]
  ELSE [text |-> <<"%", char>>, consumed |-> consumed]

\* The scan after a directive: its text is appended, its count taken over.
Emit(acc, d) == [result |-> acc.result \o d.text, consumed |-> d.consumed]

\* The scan of the format from position i on; acc is [result, consumed] so
\* far.
RECURSIVE SprintfScan(_, _, _, _, _, _)
SprintfScan(rt, format, i, args, acc, nocolor) ==
  IF i > Len(format) THEN acc
  ELSE IF format[i] = "%" /\ i < Len(format)
          /\ format[i + 1] \in Letters \cup {"%"}
  THEN SprintfScan(rt, format, i + 2, args,
                   Emit(acc, Directive(rt, format[i + 1], args, acc.consumed,
                                       nocolor)),
                   nocolor)
  ELSE SprintfScan(rt, format, i + 1, args,
                   [result |-> acc.result \o <<format[i]>>,
                    consumed |-> acc.consumed],
                   nocolor)

\* sprintf(format, args, nocolor): { result, consumed }
sprintf(rt, format, args, nocolor) ==
  SprintfScan(rt, format, 1, args, [result |-> <<>>, consumed |-> 0], nocolor)

(***************************************************************************)
(* The kits a controller call applies                                      *)
(***************************************************************************)
\* LOGGINGS_FORMATKITS, in order.
LOGGINGS_FORMATKITS ==
  <<"legacy", "bold", "strikethrough", "italic", "underline", "blink",
    "reverse", "gd", "gb">>

\* Kits a caller may pass as extraformats:
\*   toggle   drops a trailing "+", or appends one: it changes every text
\*   grow     appends "+"
\*   add      appends "+"           undo   drops a trailing "+"
\*   mention  LoggingsFormatParser(/@(\w+)@/, (_, _, m) => "User: " + m)
ExtraKit(id, nocolor, text) ==
  LET plus == text # <<>> /\ text[Len(text)] = "+"
  IN  CASE id = "toggle" -> IF plus THEN SubSeq(text, 1, Len(text) - 1)
                            ELSE text \o <<"+">>
        [] id = "grow"   -> text \o <<"+">>
        [] id = "add"    -> text \o <<"+">>
        [] id = "undo"   -> IF plus THEN SubSeq(text, 1, Len(text) - 1) ELSE text
        [] id = "mention" ->
             LET hits == { i \in 1..Len(text) :
                             /\ text[i] = "@"
                             /\ WordRunEnd(text, i + 1) > i
                             /\ OccursAt(text, <<"@">>, WordRunEnd(text, i + 1) + 1) }
             IN  IF hits = {} THEN text
                 ELSE LET i == CHOOSE x \in hits : \A y \in hits : x <= y
                          k == WordRunEnd(text, i + 1)
                      IN  SubSeq(text, 1, i - 1) \o <<"U","s","e","r",":"," ">>
                            \o SubSeq(text, i + 1, k) \o SubSeq(text, k + 2, Len(text))

\* func(nocolor, current) of one kit.
ApplyKit(id, nocolor, text) ==
  CASE id = "legacy"        -> LegacyKit(nocolor, text)
    [] id = "bold"          -> InlineKit("*", N_bold, nocolor, text)
    [] id = "strikethrough" -> InlineKit("~", N_strikethrough, nocolor, text)
    [] id = "italic"        -> InlineKit("-", N_italic, nocolor, text)
    [] id = "underline"     -> InlineKit("_", N_underline, nocolor, text)
    [] id = "blink"         -> InlineKit("!", N_blink, nocolor, text)
    [] id = "reverse"       -> InlineKit("#", N_reverse, nocolor, text)
    [] id = "gd"            -> GradientKit("d", nocolor, text)
    [] id = "gb"            -> GradientKit("b", nocolor, text)
    [] OTHER                -> ExtraKit(id, nocolor, text)

\* const max = 10
max == 10

\* while (changed && iterations < max), iterations already counted up.
LoopAgain_OffByOne(ch, it) == ch /\ it <= max

LoopAgain(ch, it) == ch /\ it < max

(***************************************************************************)
(* Configuration objects, deepMerge and the console plugin                 *)
(* An object is the function from its keys to their values.                *)
(***************************************************************************)
EmptyObject == [k \in {} |-> ""]

\* undefined, and a value that is not.
None == [none |-> TRUE]

Some(x) == [some |-> x]

\* The base configuration.
defaults ==
  [ level |-> "info", title |-> "Loggings", formatKits |-> LOGGINGS_FORMATKITS ]

ConsolePluginDefault ==
  [ format |-> "[{status}] [{hours}:{minutes}:{seconds}].gray {message}",
    status |-> [ error |-> "red50", debug |-> "purple50", info |-> "blue40",
                 warn |-> "yellow40", trace |-> "yellow95", txt |-> "none" ],
    color |-> "green",
    fallback |-> "white",
    disable_colors |-> FALSE,
    console |-> TRUE,
    colors |-> EmptyObject ]

\* The keys whose values are objects (status and colors of
\* LggsConsoleConfig); the value of every other key is a string, a boolean
\* or an array.
ObjectKeys == {"status", "colors"}

\* isObject(source[key])
isObject(source, key) == key \in ObjectKeys

\* One source merged into target: a key whose value is an object is merged
\* into the object target has there (a new {} when it has none), any other
\* key is assigned.
RECURSIVE MergeSource(_, _)
MergeSource(target, source) ==
  [ key \in DOMAIN target \cup DOMAIN source |->
      IF key \notin DOMAIN source THEN target[key]
      ELSE IF isObject(source, key)
           THEN MergeSource(IF key \in DOMAIN target THEN target[key]
                            ELSE EmptyObject,
                            source[key])
           ELSE source[key] ]

\* deepMerge(target, ...sources)
RECURSIVE deepMerge(_, _)
deepMerge(target, sources) ==
  IF sources = <<>> THEN target
  ELSE deepMerge(MergeSource(target, Head(sources)), Tail(sources))

\* { ...a, ...b }
Spread(a, b) ==
  [ key \in DOMAIN a \cup DOMAIN b |-> IF key \in DOMAIN b THEN b[key] ELSE a[key] ]

\* A plugin: its ident, its default configuration and what each of its
\* hooks does ("none" when it has no such hook); name tells two plugins of
\* one ident apart.
\*   onPreMessage  "pass" returns the messages, "drop" returns undefined
\*   onMessage     "text" returns a string
\*   onSend        "ok" returns
\* and "throw" for a hook that throws, "console" for that of the console
\* plugin.
Plugin(name, ident, init, pre, msg, send, err) ==
  [ name |-> name, ident |-> ident, default |-> EmptyObject, onInit |-> init,
    onPreMessage |-> pre, onMessage |-> msg, onSend |-> send, onError |-> err ]

\* The plugin data the console plugin function returns.
ConsolePlugin ==
  [ Plugin("console", "lggs-console", FALSE, "console", "console", "console", FALSE)
      EXCEPT !.default = ConsolePluginDefault ]

\* The default plugins. (The register plugin, which writes files, is not
\* part of these sources.)
LggsDefaultPlugins == <<ConsolePlugin>>

\* The plugin kept whatever is loaded under its ident.
Keyed_Append(loaded, plugin) == Append(loaded, plugin)

\* plugins[plugin.ident] = plugin: the plugin takes the place of the one
\* loaded under its ident, or comes last.
Keyed(loaded, plugin) ==
  IF \E j \in 1..Len(loaded) : loaded[j].ident = plugin.ident
  THEN [j \in 1..Len(loaded) |->
          IF loaded[j].ident = plugin.ident THEN plugin ELSE loaded[j]]
  ELSE Append(loaded, plugin)

\* list.forEach((p) => plugins[plugin.ident] = plugin) from position i on.
RECURSIVE LoadFrom(_, _, _)
LoadFrom(loaded, list, i) ==
  IF i > Len(list) THEN loaded
  ELSE LoadFrom(Keyed(loaded, list[i]), list, i + 1)

\* The static pluginLoader(instance_plugins, nostatic), static_plugins
\* being the static plugin list of the class.
pluginLoader(static_plugins, instance_plugins, nostatic) ==
  LoadFrom(IF nostatic THEN <<>> ELSE LoadFrom(<<>>, static_plugins, 1),
           instance_plugins, 1)

\* The getter allconfigs of an instance whose this.configs is own and
\* whose loaded plugins are loaded, Lggs.configs being static.
allconfigsOf(static, loaded, own) ==
  deepMerge(EmptyObject,
            <<static>> \o [i \in 1..Len(loaded) |-> loaded[i].default] \o <<own>>)

\* The getter allconfigs of an instance with the default plugins.
allconfigs(static, own) ==
  allconfigsOf(static,
               pluginLoader(LggsDefaultPlugins, LggsDefaultPlugins, FALSE), own)

LoggingsLevelToNumber(level) ==
  CASE level = "debug" -> 4
    [] level = "info"  -> 3
    [] level = "warn"  -> 2
    [] level = "error" -> 1
    [] OTHER           -> 1

\* config.console_level ?? config.level
ConsoleLevel(config) ==
  IF "console_level" \in DOMAIN config THEN config.console_level ELSE config.level

\* onPreMessage without the comparison of the levels.
onPreMessage_AnyLevel(config, level, messages) ==
  IF level = "txt" THEN None
  ELSE IF ~config.console THEN None ELSE Some(messages)

\* onPreMessage of the console plugin: the messages, or undefined.
onPreMessage(config, level, messages) ==
  IF level = "txt" THEN None
  ELSE IF ~config.console
          \/ LoggingsLevelToNumber(level) > LoggingsLevelToNumber(ConsoleLevel(config))
       THEN None
       ELSE Some(messages)

\* onMessage of the console plugin: the text LggsFormatKitController and
\* timer make of config.format, of the level and of the messages, here the
\* record of what it is made from.
onMessage(config, level, messages) ==
  [ format |-> config.format, status |-> level, messages |-> messages,
    disabled |-> config.disable_colors ]

\* ["error", "warn"].includes(level.toLowerCase())
isError(level) == level \in {"error", "warn"}

\* onSend of the console plugin under runtime rt: the write it makes.
onSend(rt, level, message) ==
  CASE rt = "Deno" ->
         [ sink |-> "Deno", stream |-> IF isError(level) THEN "stderr" ELSE "stdout",
           text |-> message, newline |-> TRUE ]
    [] rt = "Node" ->
         [ sink |-> "process", stream |-> IF isError(level) THEN "stderr" ELSE "stdout",
           text |-> message, newline |-> TRUE ]
    [] rt = "Bun" ->
         [ sink |-> "Bun", stream |-> IF isError(level) THEN "stderr" ELSE "stdout",
           text |-> message, newline |-> TRUE ]
    [] rt = "Browser" ->
         [ sink |-> "console", stream |-> level, text |-> message, newline |-> FALSE ]

(***************************************************************************)
(* The hooks of the plugins in a call of controller                        *)
(* A run is [config, hooks, written, thrown]: the fullConfig object, the   *)
(* calls of hooks made so far, the writes of the console plugin, whether   *)
(* an exception left the call.                                             *)
(***************************************************************************)
\* A call of a hook of plugin with the configuration config: ret is what it
\* returned, None for undefined, Threw when it threw.
HookCall(plugin, hook, config, arg) ==
  [ plugin |-> plugin.name, hook |-> hook, level |-> config.level, arg |-> arg,
    ret |-> None ]

Threw == [threw |-> TRUE]

\* The latest hook call ends with value.
Returned(run, value) ==
  [run EXCEPT !.hooks[Len(run.hooks)].ret = value]

Called(run, plugin, hook, arg) ==
  [run EXCEPT !.hooks = Append(@, HookCall(plugin, hook, run.config, arg))]

\* catch (e) that lets no exception go on.
Caught_Swallowed(run, plugin) ==
  IF plugin.onError
  THEN Called(Returned(run, Threw), plugin, "onError", [error |-> plugin.name])
  ELSE Returned(run, Threw)

\* catch (e): onError of the plugin, or the exception goes on.
Caught(run, plugin) ==
  IF plugin.onError
  THEN Called(Returned(run, Threw), plugin, "onError", [error |-> plugin.name])
  ELSE [Returned(run, Threw) EXCEPT !.thrown = TRUE]

\* config.level = config.console_level ? config.console_level : config.level
LevelAssigned(config) ==
  [config EXCEPT !.level = IF "console_level" \in DOMAIN config
                           THEN config.console_level ELSE config.level]

\* What onMessage of the plugin returns.
MessageOf(plugin, config, level, messages) ==
  IF plugin.onMessage = "console" THEN onMessage(config, level, messages)
  ELSE [from |-> plugin.name, messages |-> messages]

\* The body of plugin.onSend(fullConfig, level, message), entered.
SendBody(run, rt, plugin, level, message) ==
  CASE plugin.onSend = "throw"   -> Caught(run, plugin)
    [] plugin.onSend = "console" ->
         [run EXCEPT !.written = Append(@, onSend(rt, level, message))]
    [] OTHER                     -> run

\* if (plugin.onSend) plugin.onSend(fullConfig, level, message)
Send(run, rt, plugin, level, message) ==
  IF plugin.onSend = "none" THEN run
  ELSE SendBody(Called(run, plugin, "onSend", [message |-> message]),
                rt, plugin, level, message)

\* The body of plugin.onMessage(fullConfig, level, messages), entered, and
\* the onSend after it.
MessageBody(run, rt, plugin, level, messages) ==
  CASE plugin.onMessage = "throw"   -> Caught(run, plugin)
    [] plugin.onMessage = "console" ->
         Send(Returned([run EXCEPT !.config = LevelAssigned(@)],
                       Some(MessageOf(plugin, run.config, level, messages))),
              rt, plugin, level, MessageOf(plugin, run.config, level, messages))
    [] OTHER                        ->
         Send(Returned(run, Some(MessageOf(plugin, run.config, level, messages))),
              rt, plugin, level, MessageOf(plugin, run.config, level, messages))

\* The same without the test of messages.
Message_Unchecked(run, rt, plugin, level, messages) ==
  IF plugin.onMessage = "none" THEN run
  ELSE MessageBody(Called(run, plugin, "onMessage",
                          [messages |-> IF messages = None THEN <<>>
                                        ELSE messages.some]),
                   rt, plugin, level,
                   IF messages = None THEN <<>> ELSE messages.some)

\* if (messages && plugin.onMessage) { ... }
Message(run, rt, plugin, level, messages) ==
  IF messages = None \/ plugin.onMessage = "none" THEN run
  ELSE MessageBody(Called(run, plugin, "onMessage", [messages |-> messages.some]),
                   rt, plugin, level, messages.some)

\* The body of plugin.onPreMessage(fullConfig, level, msgs), entered, and
\* what follows it.
PreMessageBody(run, rt, plugin, level, msgs) ==
  CASE plugin.onPreMessage = "throw"   -> Caught(run, plugin)
    [] plugin.onPreMessage = "console" ->
         Message(Returned(run, onPreMessage(run.config, level, msgs)),
                 rt, plugin, level, onPreMessage(run.config, level, msgs))
    [] plugin.onPreMessage = "drop"    -> Message(run, rt, plugin, level, None)
    [] OTHER                           ->
         Message(Returned(run, Some(msgs)), rt, plugin, level, Some(msgs))

\* The callback of forEach for one plugin.
OnePlugin(run, rt, plugin, level, msgs) ==
  IF plugin.onPreMessage = "none"
  THEN Message(run, rt, plugin, level, Some(msgs))
  ELSE PreMessageBody(Called(run, plugin, "onPreMessage", [messages |-> msgs]),
                      rt, plugin, level, msgs)

\* Lggs.pluginLoader(this.plugins).forEach(...) from plugin i on; an
\* exception that leaves the callback ends it.
RECURSIVE RunPlugins(_, _, _, _, _, _)
RunPlugins(run, rt, loaded, i, level, msgs) ==
  IF i > Len(loaded) \/ run.thrown THEN run
  ELSE RunPlugins(OnePlugin(run, rt, loaded[i], level, msgs), rt, loaded, i + 1,
                  level, msgs)

\* controller(msgs, level) of an instance whose allconfigs is fullConfig.
Controlled(rt, fullConfig, loaded, level, msgs) ==
  RunPlugins([config |-> fullConfig, hooks |-> <<>>, written |-> <<>>,
              thrown |-> FALSE],
             rt, loaded, 1, level, msgs)

\* plugins.forEach((plugin) => { if (plugin.onInit) plugin.onInit(config) })
RECURSIVE Inits(_, _, _)
Inits(loaded, i, config) ==
  IF i > Len(loaded) THEN <<>>
  ELSE (IF loaded[i].onInit
        THEN <<HookCall(loaded[i], "onInit", config, [config |-> config])>>
        ELSE <<>>)
         \o Inits(loaded, i + 1, config)

(***************************************************************************)
(* State                                                                   *)
(***************************************************************************)
VARIABLES
  runtime,       \* the module variable `runtime` of utils
  pc,            \* "idle" | "loop" | "done" | "sprintf"
  texts,         \* the inputs of the call in progress
  extraformats,  \* its extra kits
  nocolor,       \* its nocolor flag
  consumed,      \* what sprintf reported (0 when it was not called)
  output,        \* the segments
  seg,           \* the segment output.map is at
  current,       \* its text
  changed,       \* the flag of the do-while loop
  iterations,    \* its round counter
  tool,          \* the kit tools.forEach is at
  result,        \* what the call returned
  prev,          \* what the call before returned
  calls,         \* 1 for a call, 2 for a call on the result of a call
  configs,       \* the static Lggs.configs
  loggers,       \* the instances of Lggs: [configs |-> this.configs]
  updates,       \* how many times a configuration was changed
  logged,        \* the log call made in this configuration, if any
  written,       \* what the console plugin wrote during it
  cls,           \* the class in use: "Lggs" (lggs.ts) or "Loggings" (loggings.ts)
  arrays,        \* the plugin arrays; arrays[1] is the static plugins
  hooks,         \* the calls of hooks the latest operation made
  thrown         \* whether it ended with an exception

vars == <<runtime, pc, texts, extraformats, nocolor, consumed, output, seg,
          current, changed, iterations, tool, result, prev, calls,
          configs, loggers, updates, logged, written,
          cls, arrays, hooks, thrown>>

\* The state of the plugins.
plugs == <<cls, arrays, hooks, thrown>>

\* The state of Lggs and of the sinks of the console plugin.
lggs == <<configs, loggers, updates, logged, written>>

\* The state of a call of LoggingsFormatKitController.
call == <<pc, texts, extraformats, nocolor, consumed, output, seg, current,
          changed, iterations, tool, result, prev, calls>>

tools == LOGGINGS_FORMATKITS \o extraformats

(***************************************************************************)
(* The calls the model makes                                               *)
(***************************************************************************)
\* The longest content of a single tag.
MaxContent == 2

\* The deepest nesting of tags.
MaxDepth == 6

\* The largest number of delimiter pairs in one segment.
MaxPairs == 11

\* The largest number of parts of a free-form input.
MaxParts == 3

\* The largest number of inputs after a template.
MaxInputs == 2

\* The largest number of display units of a gradient text.
MaxUnits == 3

\* All strings over alphabet of lo..hi characters.
StringsOver(alphabet, lo, hi) == UNION { [1..k -> alphabet] : k \in lo..hi }

\* "[" content "]." name, with "-b" when bold.
TagStr(content, name, bold) ==
  <<"[">> \o content \o <<"]", ".">> \o name
    \o (IF bold THEN <<"-", "b">> ELSE <<>>)

\* The colour of nesting level k (1 is the outermost).
LevelColor(k) == ColorNames[((k - 1) % Len(ColorNames)) + 1]

\* Tags nested d deep, written from level k inwards; with outerText every
\* enclosing level holds the text " O" after its inner tag.
RECURSIVE NestedFrom(_, _, _)
NestedFrom(k, d, outerText) ==
  IF k = d THEN TagStr(<<"D">>, LevelColor(k), FALSE)
  ELSE TagStr(NestedFrom(k + 1, d, outerText)
                \o (IF outerText THEN <<" ", "O">> ELSE <<>>),
              LevelColor(k), FALSE)

Nested(d, outerText) == NestedFrom(1, d, outerText)

\* [A [B].c1 C].c2
Mixed(c1, c2) ==
  TagStr(<<"A", " ">> \o TagStr(<<"B">>, c1, FALSE) \o <<" ", "C">>, c2, FALSE)

\* [A].c1 [B].c2, each with or without -b
Siblings(c1, b1, c2, b2) ==
  TagStr(<<"A">>, c1, b1) \o <<" ">> \o TagStr(<<"B">>, c2, b2)

RECURSIVE Repeat(_, _)
Repeat(piece, n) == IF n = 0 THEN <<>> ELSE piece \o Repeat(piece, n - 1)

ContentAlphabet == {"A", " ", "$", "&"}

SomeColors == {N_red, N_blue, N_green}

Parts ==
  { TagStr(<<"A">>, N_red, FALSE), <<"]">>, <<".","r","e","d">>, <<"*">>,
    Placeholder(0) }

Call(t, e, nc) == [texts |-> t, extraformats |-> e, nocolor |-> nc]

\* render([s], [], nc)
Single(s, nc) == Call(<<StrV(s)>>, <<>>, nc)

CallsRoundTrip ==
  { Single(TagStr(x, c, b), nc) :
      x \in StringsOver(ContentAlphabet, 1, MaxContent),
      c \in {N_red, N_blue}, b \in BOOLEAN, nc \in BOOLEAN }

CallsSiblings ==
  { Single(Siblings(c1, b1, c2, b2), nc) :
      c1 \in SomeColors, c2 \in SomeColors, b1 \in BOOLEAN, b2 \in BOOLEAN,
      nc \in BOOLEAN }

CallsNested ==
  { Single(Nested(d, t), nc) : d \in 1..MaxDepth, t \in BOOLEAN, nc \in BOOLEAN }
    \cup { Single(Mixed(c1, c2), nc) :
             c1 \in SomeColors, c2 \in SomeColors, nc \in BOOLEAN }

CallsPairs ==
  { Single(Repeat(p, n), nc) :
      p \in { <<"*", "*">>, <<"*", "a", "*", " ">> }, n \in 0..MaxPairs,
      nc \in BOOLEAN }

CallsParts ==
  { Single(Concat(ps), nc) : ps \in StringsOver(Parts, 0, MaxParts), nc \in BOOLEAN }

CallsExtra ==
  { Call(<<StrV(s)>>, e, nc) :
      s \in { <<>>, <<"A">>, <<"@","b","o","b","@">> },
      e \in { <<"toggle">>, <<"grow">>, <<"add", "undo">>, <<"mention">>,
              <<"mention", "toggle">> },
      nc \in BOOLEAN }

CallsMulti ==
  { Call(t, <<>>, nc) :
      t \in { <<>>,
              <<StrV(<<"%","s"," ","%","d">>), StrV(<<"A">>)>>,
              <<StrV(<<"%","d">>), NumV(5), StrV(<<"*","B","*">>)>>,
              <<StrV(<<"x">>), StrV(<<"[","A","]",".","r","e","d">>), NumV(3)>>,
              <<NumV(7), StrV(<<"%","s">>)>>,
              <<StrV(<<"%","j"," ","%","z">>), CircV, ObjV>> },
      nc \in BOOLEAN }

\* render([template, ...rest], [], nc)
CallsTemplate ==
  { Call(<<StrV(f)>> \o rest, <<>>, nc) :
      f \in { <<"%","s">>, <<"%","s","%","d">>, <<"%","z","%","s">>, <<"x">> },
      rest \in StringsOver({ StrV(<<"A">>), NumV(5), ObjV }, 1, MaxInputs),
      nc \in BOOLEAN }

\* "(" text ")g" v "(" colors ")", v being "d" or "b"
GradientStr(text, v, colors) ==
  <<"(">> \o text \o <<")", "g", v, "(">> \o colors \o <<")">>

\* c1 "," c2
TwoStops(c1, c2) == c1 \o <<",">> \o c2

GradientTexts == StringsOver({"A", EMOJI}, 1, MaxUnits)

GradientColors == {N_red, N_blue, N_yellow}

\* render(["(text)gd(c1,c2)"], [], nc), the gb form, and gradients of one
\* stop and of three.
CallsGradient ==
  { Single(GradientStr(t, v, TwoStops(c1, c2)), nc) :
      t \in GradientTexts, v \in {"d", "b"}, c1 \in GradientColors,
      c2 \in GradientColors, nc \in BOOLEAN }
    \cup { Single(GradientStr(<<"A","B","C">>, "d", cs), nc) :
             cs \in { N_red, TwoStops(N_red, TwoStops(N_blue, N_green)),
                      <<" ">> \o TwoStops(N_red \o <<" ">>, N_cyan) },
             nc \in BOOLEAN }

\* The delimiters of the six inline kits.
Delimiters == {"*", "~", "-", "_", "!", "#"}

\* d text d
Marked(d, text) == <<d>> \o text \o <<d>>

RedBold ==
  <<"[","R","e","d","]",".","r","e","d"," ","*","B","o","l","d","*">>

\* render on one pair and on two pairs of each delimiter, and on
\* "[Red].red *Bold*".
CallsMarkers ==
  { Single(Marked(d, <<"a">>), nc) : d \in Delimiters, nc \in BOOLEAN }
    \cup { Single(Marked(d, <<"a">>) \o <<" ">> \o Marked(d, <<"b">>), nc) :
             d \in Delimiters, nc \in BOOLEAN }
    \cup { Single(RedBold, nc) : nc \in BOOLEAN }

\* The largest number of stops of a gradient.
MaxStops == 4

\* The colour list of k stops.
StopList(k) ==
  Join(SubSeq(<<N_red, N_blue, N_green, N_yellow, N_cyan>>, 1, k), <<",">>)

\* Gradients of 1..MaxStops stops over 1..MaxUnits scalar units.
CallsStops ==
  { Single(GradientStr(Repeat(<<"A">>, n), "d", StopList(k)), nc) :
      n \in 1..MaxUnits, k \in 1..MaxStops, nc \in BOOLEAN }

Calls ==
  CallsStops \cup CallsMarkers \cup CallsGradient \cup CallsRoundTrip \cup CallsSiblings \cup CallsNested \cup CallsPairs
    \cup CallsParts \cup CallsExtra \cup CallsMulti \cup CallsTemplate

(***************************************************************************)
(* LoggingsFormatKitController                                             *)
(***************************************************************************)
Init ==
  /\ runtime = "Node"
  /\ pc = "idle"
  /\ texts = <<>>
  /\ extraformats = <<>>
  /\ nocolor = FALSE
  /\ consumed = 0
  /\ output = <<>>
  /\ seg = 0
  /\ current = <<>>
  /\ changed = FALSE
  /\ iterations = 0
  /\ tool = 0
  /\ result = <<>>
  /\ prev = <<>>
  /\ calls = 0
  /\ configs = defaults
  /\ loggers = <<>>
  /\ updates = 0
  /\ logged = None
  /\ written = <<>>
  /\ cls = "Lggs"
  /\ arrays = <<LggsDefaultPlugins>>
  /\ hooks = <<>>
  /\ thrown = FALSE

\* Whether the controller tries sprintf on its inputs.
TriesSprintf(inputs) ==
  Len(inputs) > 0 /\ inputs[1].t = "str" /\ Len(inputs) > 1

\* inputs.forEach: a string as it is, another value through _inspect.
Inspected(rt, rest, nc) ==
  [i \in 1..Len(rest) |->
     IF rest[i].t = "str" THEN rest[i].s ELSE _inspect(rt, rest[i], nc)]

\* The slice that drops the format only: inputs.slice(1).
AfterSprintf_KeepsConsumed(rt, inputs, nc, sp) ==
  [ segments |-> <<sp.result>> \o Inspected(rt, Tail(inputs), nc),
    consumed |-> sp.consumed ]

\* The segments after sprintf returned sp: its result, then the inputs it
\* did not consume.
AfterSprintf(rt, inputs, nc, sp) ==
  [ segments |-> <<sp.result>>
                   \o Inspected(rt, SubSeq(inputs, 2 + sp.consumed, Len(inputs)), nc),
    consumed |-> sp.consumed ]

\* The segments before the kits run, and what sprintf consumed.
Segments(rt, inputs, nc) ==
  IF TriesSprintf(inputs)
  THEN AfterSprintf(rt, inputs, nc, sprintf(rt, inputs[1].s, Tail(inputs), nc))
  ELSE [segments |-> Inspected(rt, inputs, nc), consumed |-> 0]

\* The start of output.map on the segments sg of call c.
BeginWith(c, n, p, sg) ==
  /\ texts' = c.texts
  /\ extraformats' = c.extraformats
  /\ nocolor' = c.nocolor
  /\ consumed' = sg.consumed
  /\ output' = sg.segments
  /\ changed' = FALSE
  /\ iterations' = 0
  /\ calls' = n
  /\ prev' = p
  /\ result' = <<>>
  /\ IF sg.segments = <<>>
     THEN pc' = "done" /\ seg' = 0 /\ tool' = 0 /\ current' = <<>>
     ELSE pc' = "loop" /\ seg' = 1 /\ tool' = 1 /\ current' = sg.segments[1]
  /\ UNCHANGED <<plugs, lggs, runtime>>

\* The call LoggingsFormatKitController(c.texts, c.extraformats, c.nocolor)
\* up to the first segment of output.map.
Begin(c, n, p) == BeginWith(c, n, p, Segments(runtime, c.texts, c.nocolor))

Render == pc = "idle" /\ \E c \in Calls : Begin(c, 1, <<>>)

\* One func of tools.forEach.
ApplyTool ==
  /\ pc = "loop"
  /\ tool <= Len(tools)
  /\ LET nextupt == ApplyKit(tools[tool], nocolor, current)
     IN  /\ current' = nextupt
         /\ changed' = (changed \/ nextupt # current)
  /\ tool' = tool + 1
  /\ UNCHANGED <<plugs, lggs, runtime, pc, texts, extraformats, nocolor, consumed, output,
                 seg, iterations, result, prev, calls>>

\* The end of a round that is followed by another.
NextRound ==
  /\ pc = "loop"
  /\ tool = Len(tools) + 1
  /\ LoopAgain(changed, iterations + 1)
  /\ iterations' = iterations + 1
  /\ changed' = FALSE
  /\ tool' = 1
  /\ UNCHANGED <<plugs, lggs, runtime, pc, texts, extraformats, nocolor, consumed, output,
                 seg, current, result, prev, calls>>

\* The end of the last round of a segment that is followed by another.
NextSegment ==
  /\ pc = "loop"
  /\ tool = Len(tools) + 1
  /\ ~LoopAgain(changed, iterations + 1)
  /\ seg < Len(output)
  /\ output' = [output EXCEPT ![seg] = current]
  /\ seg' = seg + 1
  /\ current' = output[seg + 1]
  /\ iterations' = 0
  /\ changed' = FALSE
  /\ tool' = 1
  /\ UNCHANGED <<plugs, lggs, runtime, pc, texts, extraformats, nocolor, consumed, result,
                 prev, calls>>

\* The end of the last round of the last segment: output.join(" ").
Finish ==
  /\ pc = "loop"
  /\ tool = Len(tools) + 1
  /\ ~LoopAgain(changed, iterations + 1)
  /\ seg = Len(output)
  /\ output' = [output EXCEPT ![seg] = current]
  /\ iterations' = iterations + 1
  /\ result' = Join(output', <<" ">>)
  /\ pc' = "done"
  /\ UNCHANGED <<plugs, lggs, runtime, texts, extraformats, nocolor, consumed, seg, current,
                 changed, tool, prev, calls>>

\* The caller renders the result of its call again, alone, with the same
\* kits and flag.
Rerender ==
  /\ pc = "done"
  /\ calls = 1
  /\ Begin(Call(<<StrV(result)>>, extraformats, nocolor), 2, result)

\* The caller drops the result.
Return ==
  /\ pc = "done"
  /\ pc' = "idle"
  /\ texts' = <<>>
  /\ extraformats' = <<>>
  /\ nocolor' = FALSE
  /\ consumed' = 0
  /\ output' = <<>>
  /\ seg' = 0
  /\ current' = <<>>
  /\ changed' = FALSE
  /\ iterations' = 0
  /\ tool' = 0
  /\ result' = <<>>
  /\ prev' = <<>>
  /\ calls' = 0
  /\ UNCHANGED <<plugs, lggs, runtime>>

Next ==
  \/ Render
  \/ ApplyTool
  \/ NextRound
  \/ NextSegment
  \/ Finish
  \/ Rerender
  \/ Return

Spec == Init /\ [][Next]_vars

(***************************************************************************)
(* sprintf on its own                                                      *)
(***************************************************************************)
\* The largest number of tokens of a format.
MaxFormat == 3

\* The largest number of arguments.
MaxArgs == 2

FormatTokens ==
  { <<"%","s">>, <<"%","d">>, <<"%","i">>, <<"%","z">>, <<"%","%">>, <<"x">> }

ArgValues == { StrV(<<"A">>), StrV(<<"7">>), NumV(5), NumV(-3) }

SprintfCall ==
  /\ pc = "idle"
  /\ \E toks \in StringsOver(FormatTokens, 0, MaxFormat),
        args \in StringsOver(ArgValues, 0, MaxArgs),
        nc \in BOOLEAN :
         /\ pc' = "sprintf"
         /\ texts' = <<StrV(Concat(toks))>> \o args
         /\ nocolor' = nc
         /\ result' = sprintf(runtime, Concat(toks), args, nc).result
         /\ consumed' = sprintf(runtime, Concat(toks), args, nc).consumed
         /\ UNCHANGED <<plugs, lggs, runtime, extraformats, output, seg, current, changed,
                        iterations, tool, prev, calls>>

\* sprintf on templates with %j and on structures, one of them circular.
JsonTokens == { <<"%","j">>, <<"%","s">>, <<"x">> }

JsonArgValues == { CircV, ObjV, StrV(<<"A">>) }

SprintfJson ==
  /\ pc = "idle"
  /\ \E toks \in StringsOver(JsonTokens, 0, MaxFormat),
        args \in StringsOver(JsonArgValues, 0, MaxArgs),
        nc \in BOOLEAN :
         /\ pc' = "sprintf"
         /\ texts' = <<StrV(Concat(toks))>> \o args
         /\ nocolor' = nc
         /\ result' = sprintf(runtime, Concat(toks), args, nc).result
         /\ consumed' = sprintf(runtime, Concat(toks), args, nc).consumed
         /\ UNCHANGED <<plugs, lggs, runtime, extraformats, output, seg, current, changed,
                        iterations, tool, prev, calls>>

SprintfReturn ==
  /\ pc = "sprintf"
  /\ pc' = "idle"
  /\ texts' = <<>>
  /\ nocolor' = FALSE
  /\ result' = <<>>
  /\ consumed' = 0
  /\ UNCHANGED <<plugs, lggs, runtime, extraformats, output, seg, current, changed,
                 iterations, tool, prev, calls>>

NextSprintf == SprintfCall \/ SprintfJson \/ SprintfReturn

SpecSprintf == Init /\ [][NextSprintf]_vars

(***************************************************************************)
(* Calls with setRuntime between them                                      *)
(***************************************************************************)
\* Calls whose inputs are values, alone or after a string or a template.
CallsValues ==
  { Call(t, <<>>, nc) :
      t \in { <<ObjV>>, <<NumV(5)>>, <<CircV>>,
              <<StrV(<<"*","B","*">>), ObjV>>,
              <<StrV(<<"%","o">>), ObjV>>,
              <<StrV(<<"%","s">>), StrV(<<"A">>)>>,
              <<StrV(TagStr(<<"A">>, N_red, FALSE))>> },
      nc \in BOOLEAN }

RenderValue == pc = "idle" /\ \E c \in CallsValues : Begin(c, 1, <<>>)

\* The caller makes the call it has made once more, with the same inputs,
\* kits and flag.
RenderAgain ==
  /\ pc = "done"
  /\ calls = 1
  /\ Begin(Call(texts, extraformats, nocolor), 3, result)

\* setRuntime(r), between two calls.
setRuntime ==
  /\ pc \in {"idle", "done"}
  /\ \E r \in Runtimes : runtime' = r
  /\ UNCHANGED <<plugs, lggs, pc, texts, extraformats, nocolor, consumed, output, seg,
                 current, changed, iterations, tool, result, prev, calls>>

NextRuntime ==
  \/ RenderValue
  \/ ApplyTool
  \/ NextRound
  \/ NextSegment
  \/ Finish
  \/ RenderAgain
  \/ setRuntime
  \/ Return

SpecRuntime == Init /\ [][NextRuntime]_vars

(***************************************************************************)
(* Lggs: instances, configuration and the log calls                        *)
(***************************************************************************)
\* The largest number of instances.
MaxLoggers == 1

\* The largest number of configuration changes.
MaxUpdates == 1

LggsLevels == {"debug", "info", "warn", "error", "trace", "txt"}

\* What a configuration call is given.
Advanced ==
  { [level |-> l] : l \in LggsLevels \ {"info", "txt"} }
    \cup { [console_level |-> l] : l \in {"debug", "error"} }
    \cup { [console |-> FALSE],
           [format |-> "[{status}] {message}"],
           [fallback |-> "red"],
           [disable_colors |-> TRUE],
           [colors |-> [ngreen |-> rgb(57, 255, 20, FALSE)]] }

\* What the constructor is given.
InitOptions ==
  { EmptyObject,
    [title |-> "ConsoleTest", console |-> TRUE, level |-> "info"],
    [title |-> "Worker", level |-> "debug"] }

\* The messages of a log call.
Messages == <<StrV(<<"A">>)>>

\* The state at module load: runtime is what the host is detected to be.
InitLggs ==
  /\ runtime \in Runtimes
  /\ pc = "idle"
  /\ texts = <<>>
  /\ extraformats = <<>>
  /\ nocolor = FALSE
  /\ consumed = 0
  /\ output = <<>>
  /\ seg = 0
  /\ current = <<>>
  /\ changed = FALSE
  /\ iterations = 0
  /\ tool = 0
  /\ result = <<>>
  /\ prev = <<>>
  /\ calls = 0
  /\ configs = defaults
  /\ loggers = <<>>
  /\ updates = 0
  /\ logged = None
  /\ written = <<>>
  /\ cls = "Lggs"
  /\ arrays = <<LggsDefaultPlugins>>
  /\ hooks = <<>>
  /\ thrown = FALSE

\* new Lggs(opts)
New ==
  /\ Len(loggers) < MaxLoggers
  /\ \E opts \in InitOptions :
       loggers' = Append(loggers, [configs |-> Spread([color |-> "blue"], opts)])
  /\ logged' = None
  /\ written' = <<>>
  /\ UNCHANGED <<plugs, runtime, call, configs, updates>>

\* Lggs.config(advanced)
Lggs_config ==
  /\ updates < MaxUpdates
  /\ \E advanced \in Advanced : configs' = deepMerge(configs, <<advanced>>)
  /\ updates' = updates + 1
  /\ logged' = None
  /\ written' = <<>>
  /\ UNCHANGED <<plugs, runtime, call, loggers>>

\* logger.config(advanced)
config ==
  /\ updates < MaxUpdates
  /\ \E i \in 1..Len(loggers), advanced \in Advanced :
       loggers' = [loggers EXCEPT ![i].configs = deepMerge(@, <<advanced>>)]
  /\ updates' = updates + 1
  /\ logged' = None
  /\ written' = <<>>
  /\ UNCHANGED <<plugs, runtime, call, configs>>

\* What a plugin whose onPreMessage returned messages writes.
Sent(rt, fullConfig, level, messages) ==
  IF messages # None
  THEN <<onSend(rt, level, onMessage(fullConfig, level, messages.some))>>
  ELSE <<>>

\* plugins.forEach of controller, fullConfig being this.allconfigs.
Handled(rt, fullConfig, level, msgs) ==
  Sent(rt, fullConfig, level, onPreMessage(fullConfig, level, msgs))

\* logger.controller(msgs, level): the body of log, debug, error, trace,
\* info, warn and txt.
controller ==
  /\ \E i \in 1..Len(loggers), level \in LggsLevels :
       /\ logged' = [logger |-> i, level |-> level]
       /\ written' = Handled(runtime, allconfigs(configs, loggers[i].configs),
                             level, Messages)
  /\ UNCHANGED <<plugs, runtime, call, configs, loggers, updates>>

NextLggs == New \/ Lggs_config \/ config \/ controller

SpecLggs == InitLggs /\ [][NextLggs]_vars

(***************************************************************************)
(* Lggs and Loggings: the plugins of the class and of the instances        *)
(* An instance is [configs |-> this.configs, plugins |-> a], this.plugins  *)
(* being the array arrays[a].                                              *)
(***************************************************************************)
\* The largest number of constructor calls and plugin registrations together.
MaxSetup == 2

\* The plugins of the callers.
PluginA == Plugin("a", "a", TRUE, "pass", "text", "ok", FALSE)

PluginDrop == Plugin("drop", "a", FALSE, "drop", "text", "ok", FALSE)

PluginCatch == Plugin("catch", "c", FALSE, "pass", "throw", "ok", TRUE)

PluginThrow == Plugin("throw", "d", FALSE, "pass", "text", "throw", FALSE)

Registrable == {PluginA, PluginDrop, PluginCatch, PluginThrow}

\* The arrays given as the plugins option.
PluginLists == { <<PluginA>>, <<PluginCatch, PluginA>>, <<PluginThrow, PluginA>> }

\* What the constructor is given: the form of the call, the plugins option
\* and the rest of the options.
ConstructorInputs ==
  { [form |-> "options", given |-> None, conf |-> EmptyObject],
    [form |-> "options", given |-> None, conf |-> [console_level |-> "debug"]],
    [form |-> "legacy", given |-> Some(<<PluginA>>), conf |-> EmptyObject] }
  \cup { [form |-> "options", given |-> Some(l), conf |-> EmptyObject] :
           l \in PluginLists }

\* The levels of the log calls.
LogLevels == {"info", "debug"}

\* The state at module load, the program using one of the two classes.
InitPlugins ==
  /\ cls \in {"Lggs", "Loggings"}
  /\ runtime = "Node"
  /\ pc = "idle"
  /\ texts = <<>>
  /\ extraformats = <<>>
  /\ nocolor = FALSE
  /\ consumed = 0
  /\ output = <<>>
  /\ seg = 0
  /\ current = <<>>
  /\ changed = FALSE
  /\ iterations = 0
  /\ tool = 0
  /\ result = <<>>
  /\ prev = <<>>
  /\ calls = 0
  /\ configs = defaults
  /\ loggers = <<>>
  /\ updates = 0
  /\ logged = None
  /\ written = <<>>
  /\ arrays = <<LggsDefaultPlugins>>
  /\ hooks = <<>>
  /\ thrown = FALSE

\* The plugins loaded for the instance inst, the arrays being as.
Loaded(as, inst) == pluginLoader(as[1], as[inst.plugins], FALSE)

\* this.allconfigs of the instance inst.
AllConfigs(as, inst) == allconfigsOf(configs, Loaded(as, inst), inst.configs)

\* The local `plugins` of the constructor: advanced.plugins is never looked
\* at, the array before it in the || chain being truthy.
ConstructorPlugins(form, given) ==
  IF form = "options" /\ given # None THEN given.some ELSE <<>>

\* The array this.plugins is after the constructor, the arrays, and whether
\* this.plugins is the array of the caller.
\* Lggs: the field is a new copy of the defaults, replaced by the array
\* given. Loggings: the field is the array of the static plugins, replaced
\* by a new array of its plugins and those given.
Constructed(c, as, plugins) ==
  IF c = "Lggs"
  THEN [ arrays |-> Append(as, IF Len(plugins) > 0 THEN plugins
                               ELSE LggsDefaultPlugins),
         plugins |-> Len(as) + 1, caller |-> Len(plugins) > 0 ]
  ELSE IF Len(plugins) > 0
       THEN [ arrays |-> Append(as, as[1] \o plugins), plugins |-> Len(as) + 1,
              caller |-> FALSE ]
       ELSE [ arrays |-> as, plugins |-> 1, caller |-> FALSE ]

\* initialConfig: { color, ...advanced, ...opts } with opts an object, or
\* { color, ...advanced, title: opts }.
InitialConfig(form, given, conf) ==
  Spread(Spread([color |-> "blue"],
                IF given # None THEN [plugins |-> given.some] ELSE EmptyObject),
         IF form = "legacy" THEN Spread(conf, [title |-> "App"]) ELSE conf)

\* The end of the constructor: the instance is stored and onInit runs for
\* its loaded plugins.
ConstructWith(form, given, conf, made) ==
  /\ arrays' = made.arrays
  /\ loggers' = Append(loggers, [ configs |-> InitialConfig(form, given, conf),
                                  plugins |-> made.plugins,
                                  caller |-> made.caller ])
  /\ hooks' = Inits(Loaded(arrays', loggers'[Len(loggers')]), 1,
                    AllConfigs(arrays', loggers'[Len(loggers')]))
  /\ logged' = [ op |-> "new", logger |-> Len(loggers'), form |-> form,
                 given |-> given ]

\* new Lggs({ ...conf, plugins }) and new Lggs("App", "blue", { ...conf,
\* plugins }), with or without the plugins option.
Construct ==
  /\ Len(loggers) + updates < MaxSetup
  /\ \E input \in ConstructorInputs :
       ConstructWith(input.form, input.given, input.conf,
                     Constructed(cls, arrays,
                                 ConstructorPlugins(input.form, input.given)))
  /\ written' = <<>>
  /\ thrown' = FALSE
  /\ UNCHANGED <<cls, runtime, call, configs, updates>>

\* The same with the array of the caller that instance j has.
ConstructedSame(c, as, j) ==
  IF c = "Lggs"
  THEN [ arrays |-> as, plugins |-> loggers[j].plugins, caller |-> TRUE ]
  ELSE Constructed(c, as, as[loggers[j].plugins])

\* new Lggs({ plugins }) with the array that was given to instance j.
ConstructSame ==
  /\ Len(loggers) + updates < MaxSetup
  /\ \E j \in 1..Len(loggers) :
       /\ loggers[j].caller
       /\ ConstructWith("options", Some(arrays[loggers[j].plugins]), EmptyObject,
                        ConstructedSame(cls, arrays, j))
  /\ written' = <<>>
  /\ thrown' = FALSE
  /\ UNCHANGED <<cls, runtime, call, configs, updates>>

\* logger.plugin(plugin)
plugin ==
  /\ Len(loggers) + updates < MaxSetup
  /\ \E i \in 1..Len(loggers), p \in Registrable :
       /\ arrays' = [arrays EXCEPT ![loggers[i].plugins] = Append(@, p)]
       /\ hooks' = Inits(<<p>>, 1, AllConfigs(arrays', loggers[i]))
       /\ logged' = [op |-> "plugin", logger |-> i, plugin |-> p]
  /\ updates' = updates + 1
  /\ written' = <<>>
  /\ thrown' = FALSE
  /\ UNCHANGED <<cls, runtime, call, configs, loggers>>

\* Lggs.plugin(plugin)
Lggs_plugin ==
  /\ Len(loggers) + updates < MaxSetup
  /\ \E p \in Registrable :
       /\ arrays' = [arrays EXCEPT ![1] = Append(@, p)]
       /\ logged' = [op |-> "static plugin", plugin |-> p]
  /\ updates' = updates + 1
  /\ hooks' = <<>>
  /\ written' = <<>>
  /\ thrown' = FALSE
  /\ UNCHANGED <<cls, runtime, call, configs, loggers>>

\* logger.config({ plugins }). Lggs: onInit of the plugins given, loaded
\* with nostatic, then they are pushed. Loggings: the array given becomes
\* this.plugins, then onInit of its plugins, loaded with nostatic.
configPlugins ==
  /\ Len(loggers) + updates < MaxSetup
  /\ \E i \in 1..Len(loggers), l \in PluginLists :
       /\ loggers' = [loggers EXCEPT
                        ![i].configs = deepMerge(@, <<[plugins |-> l]>>),
                        ![i].plugins = IF cls = "Lggs" THEN @ ELSE Len(arrays) + 1,
                        ![i].caller = IF cls = "Lggs" THEN @ ELSE TRUE]
       /\ arrays' = IF cls = "Lggs"
                    THEN [arrays EXCEPT ![loggers[i].plugins] = @ \o l]
                    ELSE Append(arrays, l)
       /\ hooks' = Inits(pluginLoader(arrays[1], l, TRUE), 1,
                         IF cls = "Lggs"
                         THEN AllConfigs(arrays, loggers'[i])
                         ELSE AllConfigs(arrays', loggers'[i]))
       /\ logged' = [op |-> "config", logger |-> i, given |-> l]
  /\ updates' = updates + 1
  /\ written' = <<>>
  /\ thrown' = FALSE
  /\ UNCHANGED <<cls, runtime, call, configs>>

\* What controller(msgs, level) of instance inst does.
ControllerOf(rt, as, inst, level, msgs) ==
  Controlled(rt, AllConfigs(as, inst), Loaded(as, inst), level, msgs)

LogWith(i, level, run) ==
  /\ hooks' = run.hooks
  /\ written' = run.written
  /\ thrown' = run.thrown
  /\ logged' = [op |-> "log", logger |-> i, level |-> level]

\* logger.info(...msgs), logger.debug(...msgs), logger.txt(...msgs)
Log ==
  /\ \E i \in 1..Len(loggers), level \in LogLevels :
       LogWith(i, level, ControllerOf(runtime, arrays, loggers[i], level, Messages))
  /\ UNCHANGED <<cls, runtime, call, configs, loggers, updates, arrays>>

NextPlugins ==
  \/ Construct
  \/ ConstructSame
  \/ plugin
  \/ Lggs_plugin
  \/ configPlugins
  \/ Log

SpecPlugins == InitPlugins /\ [][NextPlugins]_vars

(***************************************************************************)
(* The console plugin on strings: what onMessage makes of the format       *)
(***************************************************************************)
\* The text after the kits ks[i], ks[i + 1], ... were applied in order.
RECURSIVE RoundFrom(_, _, _, _)
RoundFrom(ks, nc, text, i) ==
  IF i > Len(ks) THEN text
  ELSE CHOOSE out \in { RoundFrom(ks, nc, nextupt, i + 1) :
                          nextupt \in {ApplyKit(ks[i], nc, text)} } : TRUE

\* Whether one of the kits ks[i], ks[i + 1], ... changes the text it gets.
RECURSIVE RoundChanged(_, _, _, _)
RoundChanged(ks, nc, text, i) ==
  IF i > Len(ks) THEN FALSE
  ELSE \E nextupt \in {ApplyKit(ks[i], nc, text)} :
         nextupt # text \/ RoundChanged(ks, nc, nextupt, i + 1)

\* The do ... while of one segment, it rounds done.
RECURSIVE Rounds(_, _, _, _)
Rounds(ks, nc, text, it) ==
  IF LoopAgain(RoundChanged(ks, nc, text, 1), it + 1)
  THEN Rounds(ks, nc, RoundFrom(ks, nc, text, 1), it + 1)
  ELSE RoundFrom(ks, nc, text, 1)

\* LggsFormatKitController(texts, extra, nc) as a function of its inputs.
LggsFormatKitController(rt, inputs, extra, nc) ==
  Join([ k \in 1..Len(Segments(rt, inputs, nc).segments) |->
           Rounds(LOGGINGS_FORMATKITS \o extra, nc,
                  Segments(rt, inputs, nc).segments[k], 0) ],
       <<" ">>)

\* The first position from i on where pat stands in s, 0 if there is none.
NextMatch(s, pat, i) ==
  IF \E j \in i..Len(s) : OccursAt(s, pat, j)
  THEN CHOOSE j \in i..Len(s) :
         OccursAt(s, pat, j) /\ \A k \in i..(j - 1) : ~OccursAt(s, pat, k)
  ELSE 0

\* s.replace(/pat/g, tmpl) for a pattern of literal characters and a string
\* replacement, from position i of s on, the next match being at j: every
\* occurrence is replaced by the expanded template.
RECURSIVE ReplaceAllFrom(_, _, _, _, _)
ReplaceAllFrom(s, pat, tmpl, i, j) ==
  IF j = 0 THEN SubSeq(s, i, Len(s))
  ELSE SubSeq(s, i, j - 1)
         \o GetSubstitution(tmpl, pat, SubSeq(s, 1, j - 1),
                            SubSeq(s, j + Len(pat), Len(s)))
         \o ReplaceAllFrom(s, pat, tmpl, j + Len(pat),
                           NextMatch(s, pat, j + Len(pat)))

ReplaceAll(s, pat, tmpl) == ReplaceAllFrom(s, pat, tmpl, 1, NextMatch(s, pat, 1))

\* `{key}`
Braced(key) == <<"{">> \o key \o <<"}">>

K_title == <<"t","i","t","l","e">>

K_status == <<"s","t","a","t","u","s">>

K_message == <<"m","e","s","s","a","g","e">>

K_hours == <<"h","o","u","r","s">>

K_minutes == <<"m","i","n","u","t","e","s">>

\* The keys of the timer object, in its order, and their values at a time
\* of day now = [hours, minutes] (the other keys are in no format here).
TimerEntries(now) ==
  << [key |-> K_hours, value |-> now.hours],
     [key |-> K_minutes, value |-> now.minutes] >>

\* timer(format).format: reduce over the entries of the timer object.
RECURSIVE TimerFrom(_, _, _)
TimerFrom(acc, entries, i) ==
  IF i > Len(entries) THEN acc
  ELSE TimerFrom(ReplaceAll(acc, Braced(entries[i].key), entries[i].value),
                 entries, i + 1)

timer(format, now) == TimerFrom(format, TimerEntries(now), 1)

\* The characters of a level.
LevelText(level) ==
  CASE level = "info"  -> <<"i","n","f","o">>
    [] level = "error" -> <<"e","r","r","o","r">>
    [] level = "debug" -> <<"d","e","b","u","g">>

\* The replacement of {title} in the text timed.
Titled(conf, timed) ==
  IF IndexOf(timed, Braced(K_title)) # 0
  THEN ReplaceAll(timed, Braced(K_title),
                  IF conf.disable_colors THEN conf.title
                  ELSE colorpik(conf.color, conf.title))
  ELSE timed

\* The replacement of {status} in the text titled.
Statused(conf, level, titled) ==
  IF IndexOf(titled, Braced(K_status)) # 0
  THEN ReplaceAll(titled, Braced(K_status),
                  IF conf.disable_colors THEN LevelText(level)
                  ELSE colorpik(conf.status[level],
                                colorpik(N_bold, LevelText(level))))
  ELSE titled

\* onMessage up to the replacement of {status}: the format rendered, then
\* the time, the title and the status put in, each step on the text of the
\* step before.
Framed(rt, conf, level, now) ==
  CHOOSE frame \in
    { Statused(conf, level, titled) :
        titled \in
          { Titled(conf, timed) :
              timed \in
                { timer(rendered, now) :
                    rendered \in
                      { LggsFormatKitController(rt, <<StrV(conf.format)>>,
                                                conf.formatKits,
                                                conf.disable_colors) } } } } : TRUE

\* message.replace(/{message}/g, LggsFormatKitController(messages, ...))
Messaged(rt, conf, frame, messages) ==
  IF IndexOf(frame, Braced(K_message)) # 0
  THEN ReplaceAll(frame, Braced(K_message),
                  LggsFormatKitController(rt, messages, conf.formatKits,
                                          conf.disable_colors))
  ELSE frame

\* onMessage of the console plugin on strings.
onMessageText(rt, conf, level, messages, now) ==
  CHOOSE message \in
    { Messaged(rt, conf, frame, messages) :
        frame \in {Framed(rt, conf, level, now)} } : TRUE

\* The longest message text.
MaxMessage == 2

\* The message texts: no tag, no delimiter, no placeholder.
MessageTexts == StringsOver(ContentAlphabet, 1, MaxMessage)

\* The formats of the instances.
ConsoleFormats ==
  { Braced(K_message),
    <<"[">> \o Braced(K_status) \o <<"]", " ">> \o Braced(K_message),
    Braced(K_hours) \o <<" ">> \o Braced(K_message) \o <<"!">>,
    Braced(K_title) \o <<" ">> \o Braced(K_message) }

\* The options of the instances: a format, colours or none, the colours of
\* the levels and the title.
ConsoleOptions ==
  { [ format |-> f, disable_colors |-> d, title |-> <<"A","p","p">>,
      color |-> N_blue,
      status |-> [info |-> N_blue, error |-> N_red, debug |-> N_magenta] ] :
    f \in ConsoleFormats, d \in BOOLEAN }

\* The times of day of the log calls.
Times == { [hours |-> <<"0","9">>, minutes |-> <<"3","0">>] }

ConsoleLevels == {"info", "error", "debug"}

\* The state at module load under Node.
InitConsole ==
  /\ cls = "Lggs"
  /\ runtime = "Node"
  /\ pc = "idle"
  /\ texts = <<>>
  /\ extraformats = <<>>
  /\ nocolor = FALSE
  /\ consumed = 0
  /\ output = <<>>
  /\ seg = 0
  /\ current = <<>>
  /\ changed = FALSE
  /\ iterations = 0
  /\ tool = 0
  /\ result = <<>>
  /\ prev = <<>>
  /\ calls = 0
  /\ configs = defaults
  /\ loggers = <<>>
  /\ updates = 0
  /\ logged = None
  /\ written = <<>>
  /\ arrays = <<LggsDefaultPlugins>>
  /\ hooks = <<>>
  /\ thrown = FALSE

\* new Lggs(opts), the first instance or one in its place.
NewConsole ==
  /\ \E opts \in ConsoleOptions :
       loggers' = <<[configs |-> opts]>>
  /\ logged' = None
  /\ written' = <<>>
  /\ UNCHANGED <<plugs, runtime, call, configs, updates>>

\* What the console plugin writes for the messages gated: nothing, or the
\* text of onMessage through onSend.
ConsoleWrites(rt, conf, level, gated, now) ==
  IF gated = None THEN <<>>
  ELSE <<onSend(rt, level, onMessageText(rt, conf, level, gated.some, now))>>

LogTextWith(level, m, now, conf) ==
  /\ written' = ConsoleWrites(runtime, conf, level,
                              onPreMessage(conf, level, <<StrV(m)>>), now)
  /\ logged' = [op |-> "log", level |-> level, text |-> m, now |-> now]

\* logger.info(m), logger.error(m), logger.debug(m) with a string m.
LogText ==
  /\ Len(loggers) = 1
  /\ \E level \in ConsoleLevels, m \in MessageTexts, now \in Times :
       LogTextWith(level, m, now, allconfigs(configs, loggers[1].configs))
  /\ UNCHANGED <<plugs, runtime, call, configs, loggers, updates>>

NextConsole ==
  \/ NewConsole
  \/ LogText

SpecConsole == InitConsole /\ [][NextConsole]_vars

(***************************************************************************)
(* Properties                                                              *)
(***************************************************************************)
\* Whether pat stands somewhere in s.
Contains(s, pat) == IndexOf(s, pat) # 0

\* The number of (possibly overlapping) places where pat stands in s.
Occurrences(s, pat) == Cardinality({ i \in 1..Len(s) : OccursAt(s, pat, i) })

CountChar(s, c) == Cardinality({ i \in 1..Len(s) : s[i] = c })

\* The escape sequence of s that starts at the ESC of position i.
EscapeFrom(s, i) == SubSeq(s, i, FirstOf(s, i, {"m"}))

\* The last escape sequence of s that starts before position pos.
LastEscapeBefore(s, pos) ==
  LET es == { i \in 1..(pos - 1) : s[i] = ESC }
  IN  IF es = {} THEN <<>>
      ELSE EscapeFrom(s, CHOOSE i \in es : \A j \in es : j <= i)

\* The start of every placeholder token.
PlaceholderPrefix == <<"<","_","_","L","O","G","G","I","N","G","S","_","$">>

\* A call render([s], [], nc) whose first round has just applied the legacy
\* kit to s.
AfterLegacyKit(s) ==
  /\ pc = "loop" /\ calls = 1 /\ seg = 1 /\ iterations = 0 /\ tool = 2
  /\ texts = <<StrV(s)>>

\* A call render([s], [], nc) that has returned.
Rendered(s) ==
  pc = "done" /\ calls = 1 /\ extraformats = <<>> /\ texts = <<StrV(s)>>

\* C1: whatever the extra kits, no segment gets more than 10 rounds (so no
\* kit is applied to it more than 10 times); with a kit that toggles the
\* text every time, a segment gets exactly 10 rounds and the call returns
\* the text as it is after the 10th, which for the toggling kit alone is
\* the input.
C1_RoundCap ==
  /\ iterations <= max
  /\ (pc = "loop" => iterations < max /\ tool <= Len(tools) + 1)
  /\ (pc = "done" /\ Len(output) = 1 => result = current)
  /\ (pc = "done" /\ (\E i \in 1..Len(extraformats) : extraformats[i] = "toggle")
        => iterations = max)
  /\ (pc = "done" /\ extraformats = <<"toggle">> => result = texts[1].s)

C1_Witness ==
  /\ pc = "done" /\ calls = 1
  /\ extraformats = <<"toggle">>
  /\ texts = <<StrV(<<"A">>)>>
  /\ iterations = max
  /\ result = <<"A">>

\* C2: with colours suppressed and the built-in kits only, rendering the
\* result of a render again gives the same text.
C2_Idempotent ==
  pc = "done" /\ calls = 2 /\ nocolor /\ extraformats = <<>> => result = prev

\* C3: with colours suppressed, "[X].c" and "[X].c-b" render as X, for
\* every content X over letters, spaces, "$" and "&".
C3_RoundTrip ==
  pc = "done" /\ calls = 1 /\ nocolor =>
    \A x \in StringsOver(ContentAlphabet, 1, MaxContent) :
      \A c \in {N_red, N_blue}, b \in BOOLEAN :
        texts = <<StrV(TagStr(x, c, b))>> => result = x

\* The colour escape, the bold escape when bold, the content, a reset.
Styled(c, b, content) ==
  ColorEscape(c) \o (IF b THEN AnsiBold ELSE <<>>) \o content \o AnsiReset

\* C4: with colours, "[A].c1 [B].c2" renders each tag on its own: the
\* escape of c1, A, a reset, a space, the escape of c2, B, a reset; a tag
\* with -b has the bold escape between its colour escape and its content.
C4_Siblings ==
  pc = "done" /\ calls = 1 /\ ~nocolor =>
    \A c1 \in SomeColors, c2 \in SomeColors, b1 \in BOOLEAN, b2 \in BOOLEAN :
      texts = <<StrV(Siblings(c1, b1, c2, b2))>> =>
        result = Styled(c1, b1, <<"A">>) \o <<" ">> \o Styled(c2, b2, <<"B">>)

C4_Witness ==
  /\ Rendered(Siblings(N_red, TRUE, N_blue, FALSE))
  /\ ~nocolor
  /\ Contains(result, ColorEscape(N_red) \o AnsiBold \o <<"A">>)
  /\ Contains(result, ColorEscape(N_blue) \o <<"B">>)

\* C5: in the coloured rendering of "[A [B].c1 C].c2" the style in effect
\* at C is the outer colour c2: the last escape sequence before C is the
\* escape of c2.
C5_OuterResumes ==
  pc = "done" /\ calls = 1 /\ ~nocolor =>
    \A c1 \in SomeColors, c2 \in SomeColors :
      texts = <<StrV(Mixed(c1, c2))>> =>
        LastEscapeBefore(result, IndexOf(result, <<"C">>)) = ColorEscape(c2)

\* C6: one application of the legacy kit to tags nested d deep resolves
\* every level: d fragments are made, no tag and no placeholder is left,
\* with colours the escape of every level is in the text and the innermost
\* content stands right after the innermost escape, and without colours
\* only the contents are left.
C6_DeepNesting ==
  pc = "loop" /\ calls = 1 /\ seg = 1 /\ iterations = 0 /\ tool = 2 =>
    \A d \in 1..MaxDepth, t \in BOOLEAN :
      texts = <<StrV(Nested(d, t))>> =>
        /\ PatternExec(current) = 0
        /\ ~Contains(current, PlaceholderPrefix)
        /\ CountChar(current, "]") = 0
        /\ (~nocolor =>
             /\ \A k \in 1..d : Contains(current, ColorEscape(LevelColor(k)))
             /\ Contains(current, ColorEscape(LevelColor(d)) \o <<"D">>)
             /\ Occurrences(current, AnsiReset) = d)
        /\ (nocolor =>
             current = <<"D">> \o Repeat(<<" ", "O">>, IF t THEN d - 1 ELSE 0))

C6_Witness ==
  /\ AfterLegacyKit(Nested(MaxDepth, FALSE))
  /\ ~nocolor
  /\ Contains(current, ColorEscape(LevelColor(MaxDepth)) \o <<"D">>)
  /\ Contains(current, ColorEscape(LevelColor(1)))

\* C7: every "]" of the input that does not close a well-formed tag of
\* the input is still in the output: the output holds at least as many "]"
\* as the input holds beyond its well-formed tags.
C7_StrayBrackets ==
  pc = "done" /\ calls = 1 /\ extraformats = <<>> /\ Len(texts) = 1
    /\ texts[1].t = "str" /\ CountChar(texts[1].s, "$") = 0 =>
      CountChar(result, "]") >=
        CountChar(texts[1].s, "]")
          - fragment([output |-> texts[1].s, counter |-> 0,
                      fragments |-> <<>>]).counter

\* C8: when the input holds the literal text "<__LOGGINGS_$0>" before a
\* tag, one pass of the legacy kit keeps the literal text where it is and
\* puts the tag's rendered fragment where the tag was.
C8_LiteralPlaceholder ==
  AfterLegacyKit(Placeholder(0) \o TagStr(<<"A">>, N_red, FALSE)) =>
    current = Placeholder(0)
                \o Fragmented(nocolor, [key |-> N_red, count |-> 0,
                                        value |-> <<"A">>, bold |-> FALSE])

\* The tokens of a format: "%" with the character after it, or a character.
RECURSIVE Lex(_, _)
Lex(format, i) ==
  IF i > Len(format) THEN <<>>
  ELSE IF format[i] = "%" /\ i < Len(format)
  THEN <<SubSeq(format, i, i + 1)>> \o Lex(format, i + 2)
  ELSE <<SubSeq(format, i, i)>> \o Lex(format, i + 1)

\* What "%s", "%d", "%i" and "%j" are to show for each of the arguments the
\* model passes ("A", "7", 2.5, -1.5, { a: 1 } and the circular structure),
\* written out.
ExpectedText(char, arg) ==
  CASE arg = StrV(<<"A">>) ->
         IF char = "s" THEN <<"A">>
         ELSE IF char = "j" THEN <<"\"","A","\"">> ELSE <<"N","a","N">>
    [] arg = StrV(<<"7">>) ->
         IF char = "j" THEN <<"\"","7","\"">> ELSE <<"7">>
    [] arg = NumV(5)  -> IF char \in {"s", "j"} THEN <<"2",".","5">> ELSE <<"2">>
    [] arg = NumV(-3) -> IF char \in {"s", "j"} THEN <<"-","1",".","5">>
                         ELSE IF char = "d" THEN <<"-","2">> ELSE <<"-","1">>
    [] arg = ObjV  ->
         IF char = "j" THEN <<"{","\"","a","\"",":","1","}">>
         ELSE IF char = "s"
         THEN <<"[","o","b","j","e","c","t"," ","O","b","j","e","c","t","]">>
         ELSE <<"N","a","N">>
    [] arg = CircV ->
         IF char = "j" THEN <<"[","C","i","r","c","u","l","a","r","]">>
         ELSE IF char = "s"
         THEN <<"[","o","b","j","e","c","t"," ","O","b","j","e","c","t","]">>
         ELSE <<"N","a","N">>

\* Whether a token is a directive that takes an argument.
Takes(tok) == Len(tok) = 2 /\ tok[1] = "%" /\ tok[2] \in {"s", "d", "i", "j"}

\* The output for the tokens from position p on, k arguments substituted
\* before them.
RECURSIVE ExpectedFrom(_, _, _, _)
ExpectedFrom(toks, p, args, k) ==
  IF p > Len(toks) THEN <<>>
  ELSE IF Takes(toks[p]) /\ k < Len(args)
  THEN ExpectedText(toks[p][2], args[k + 1]) \o ExpectedFrom(toks, p + 1, args, k + 1)
  ELSE IF toks[p] = <<"%", "%">>
  THEN <<"%">> \o ExpectedFrom(toks, p + 1, args, k)
  ELSE toks[p] \o ExpectedFrom(toks, p + 1, args, k)

\* The number of tokens that take an argument.
TakingTokens(toks) == Cardinality({ p \in 1..Len(toks) : Takes(toks[p]) })

\* C9: sprintf leaves a directive without a remaining argument and a "%"
\* before an unrecognised letter as they are, turns "%%" into "%", gives
\* the k-th directive it substitutes the k-th argument, and reports as
\* consumed the number of directives it substituted, which is the number of
\* recognised directives or the number of arguments, whichever is less.
C9_Sprintf ==
  pc = "sprintf" =>
    /\ result = ExpectedFrom(Lex(texts[1].s, 1), 1, Tail(texts), 0)
    /\ consumed = Min(TakingTokens(Lex(texts[1].s, 1)), Len(texts) - 1)
    /\ 0 <= consumed /\ consumed <= Len(texts) - 1

C9_Witness ==
  /\ pc = "sprintf"
  /\ texts = <<StrV(<<"%","z","%","s","%","d">>), StrV(<<"A">>)>>
  /\ result = <<"%","z","A","%","d">>
  /\ consumed = 1

\* C10: a "%d" or "%i" whose argument is no number ("A") is left as it is
\* and does not consume the argument.
C10_TypeMismatch ==
  pc = "sprintf" /\ Len(texts) = 2 /\ texts[2] = StrV(<<"A">>)
    /\ texts[1].s \in { <<"%","d">>, <<"%","i">> } =>
      result = texts[1].s /\ consumed = 0

\* The integer that truncating h / 2 toward zero gives.
TruncTowardZero(h) == IF h >= 0 THEN h \div 2 ELSE 0 - ((0 - h) \div 2)

\* C11: "%d" with a numeric argument x, negative or positive, integral or
\* fractional, renders the integer that truncating x toward zero gives.
C11_TruncTowardZero ==
  pc = "sprintf" /\ Len(texts) = 2 /\ texts[1].s = <<"%","d">>
    /\ texts[2].t = "num" =>
      result = IntStr(TruncTowardZero(texts[2].h))

\* What an input is as a segment before the kits run.
Pristine(rt, input, nc) ==
  IF input.t = "str" THEN input.s ELSE _inspect(rt, input, nc)

\* A call that has made its segments and applied no kit yet.
AtFirstKit == pc = "loop" /\ seg = 1 /\ tool = 1 /\ iterations = 0

\* C12: a call whose first input is a string followed by n >= 1 inputs, k
\* of them consumed by the template, has 1 + (n - k) segments: the
\* substituted text, then the unconsumed inputs in their order, strings as
\* they are and other values inspected; a single input is its own segment,
\* with no substitution; the result is the segments joined by single
\* spaces, and the empty string when there is no input.
C12_Segments ==
  pc \in {"loop", "done"} =>
    /\ Len(output) = Len(texts) - consumed
    /\ (TriesSprintf(texts) => Len(output) = 1 + ((Len(texts) - 1) - consumed))
    /\ (~TriesSprintf(texts) => consumed = 0)
    /\ \A j \in (seg + 1)..Len(output) :
         j > 1 \/ ~TriesSprintf(texts) =>
           output[j] = Pristine(runtime, texts[j + consumed], nocolor)
    /\ (AtFirstKit /\ ~TriesSprintf(texts) =>
          current = Pristine(runtime, texts[1], nocolor))
    /\ (AtFirstKit /\ TriesSprintf(texts)
          /\ (\A i \in 2..(1 + consumed) : texts[i] \in ArgValues) =>
          current = ExpectedFrom(Lex(texts[1].s, 1), 1, Tail(texts), 0))
    /\ (pc = "done" => result = Join(output, <<" ">>))
    /\ (pc = "done" /\ texts = <<>> => result = <<>>)

C12_Witness ==
  /\ pc = "done" /\ calls = 1 /\ nocolor
  /\ texts = <<StrV(<<"%","s">>), NumV(5), ObjV>>
  /\ consumed = 1
  /\ Len(output) = 2
  /\ result = <<"2",".","5"," ">> \o Pristine(runtime, ObjV, TRUE)

\* The fixed token of the catch of case 'j'.
CircularToken == <<"[","C","i","r","c","u","l","a","r","]">>

\* C13: when the first directive of a template is "%j" and its argument is
\* a structure that refers to itself, sprintf returns: the directive is
\* replaced by "[Circular]", the argument is consumed, and what follows
\* the directive is processed with the arguments that follow.
C13_CircularJson ==
  pc = "sprintf" /\ Len(texts) >= 2 /\ texts[2] = CircV =>
    \A i \in 1..(Len(texts[1].s) - 1) :
      /\ OccursAt(texts[1].s, <<"%","j">>, i)
      /\ CountChar(SubSeq(texts[1].s, 1, i - 1), "%") = 0
      => /\ consumed >= 1
         /\ consumed =
              1 + Min(TakingTokens(Lex(SubSeq(texts[1].s, i + 2, Len(texts[1].s)), 1)),
                      Len(texts) - 2)
         /\ result =
              SubSeq(texts[1].s, 1, i - 1) \o CircularToken
                \o ExpectedFrom(Lex(SubSeq(texts[1].s, i + 2, Len(texts[1].s)), 1),
                                1, Tail(Tail(texts)), 0)

C13_Witness ==
  /\ pc = "sprintf"
  /\ texts = <<StrV(<<"x","%","j","%","s">>), CircV, StrV(<<"A">>)>>
  /\ result = <<"x">> \o CircularToken \o <<"A">>
  /\ consumed = 2

\* Whether an escape of the form ESC[38;2; or ESC[48;2; starts at p.
IsColorEscapeAt(s, p) ==
  /\ p + 6 <= Len(s)
  /\ SubSeq(s, p, p + 1) = <<ESC, "[">>
  /\ s[p + 2] \in {"3", "4"}
  /\ SubSeq(s, p + 3, p + 6) = <<"8", ";", "2", ";">>

\* The escape that starts at p, its three numbers ending at e1, e2 and e3:
\* its form ("3" foreground, "4" background), its channels, and the place
\* of the character after it.
ColourAt3(s, p, e1, e2, e3) ==
  [ form |-> s[p + 2],
    r    |-> DigitsVal(SubSeq(s, p + 7, e1)),
    g    |-> DigitsVal(SubSeq(s, e1 + 2, e2)),
    b    |-> DigitsVal(SubSeq(s, e2 + 2, e3)),
    ends |-> (e3 + 1 <= Len(s) /\ s[e3 + 1] = "m"),
    unit |-> e3 + 2 ]

ColourAt2(s, p, e1, e2) == ColourAt3(s, p, e1, e2, DigitRunEnd(s, e2 + 2))

ColourAt1(s, p, e1) == ColourAt2(s, p, e1, DigitRunEnd(s, e1 + 2))

ColourAt(s, p) == ColourAt1(s, p, DigitRunEnd(s, p + 7))

\* The colour escapes of s from position p on, in order.
RECURSIVE UnitColours(_, _)
UnitColours(s, p) ==
  IF p > Len(s) THEN <<>>
  ELSE IF IsColorEscapeAt(s, p) THEN <<ColourAt(s, p)>> \o UnitColours(s, p + 7)
  ELSE UnitColours(s, p + 1)

\* The channels of a colour name's stop.
StopRGB(name) ==
  << (toHexadecimal(name) \div 65536) % 256, (toHexadecimal(name) \div 256) % 256,
     toHexadecimal(name) % 256 >>

Between(x, a, b) == Min(a, b) <= x /\ x <= Max(a, b)

\* x, of an earlier unit, and y, of a later one, on the way from a to b.
Toward(x, y, a, b) == IF a <= b THEN x <= y ELSE x >= y

\* A call render(["(...)g?(...)"], [], nc) in its first round, right after
\* the kit at place k of tools.
AfterKit(k) ==
  /\ pc = "loop" /\ calls = 1 /\ seg = 1 /\ iterations = 0 /\ tool = k + 1
  /\ Len(texts) = 1 /\ texts[1].t = "str" /\ texts[1].s # <<>>
  /\ texts[1].s[1] = "("

\* What C14 says of the coloured units us of a gradient from stop a to stop
\* b over n scalar units, rendered as out.
GradientWithin(us, n, a, b, out) ==
  /\ Len(us) = n
  /\ <<us[1].r, us[1].g, us[1].b>> = a
  /\ \A i \in 1..n :
       /\ us[i].ends
       /\ Between(us[i].r, a[1], b[1])
       /\ Between(us[i].g, a[2], b[2])
       /\ Between(us[i].b, a[3], b[3])
       /\ out[us[i].unit] # EMOJI
  /\ \A i \in 1..n, j \in 1..n :
       i < j => /\ Toward(us[i].r, us[j].r, a[1], b[1])
                /\ Toward(us[i].g, us[j].g, a[2], b[2])
                /\ Toward(us[i].b, us[j].b, a[3], b[3])
  /\ Occurrences(out, AnsiReset) = 1
  /\ OccursAt(out, AnsiReset, Len(out) - 3)

\* C14: a coloured gradient of two stops over N >= 1 scalar units gives
\* unit 0 the first stop's exact colour, keeps every channel of every unit
\* between the two stops' values, moves each channel monotonically from the
\* first stop toward the last, and ends with exactly one reset.
C14_GradientBounds ==
  AfterKit(8) /\ ~nocolor =>
    \A t \in GradientTexts, c1 \in GradientColors, c2 \in GradientColors :
      /\ texts[1].s = GradientStr(t, "d", TwoStops(c1, c2))
      /\ CountChar(t, "A") >= 1
      => GradientWithin(UnitColours(current, 1), CountChar(t, "A"),
                        StopRGB(c1), StopRGB(c2), current)

C14_Witness ==
  /\ AfterKit(8) /\ ~nocolor
  /\ texts[1].s = GradientStr(<<"A", EMOJI, "A">>, "d", TwoStops(N_red, N_blue))
  /\ current = rgb(255, 0, 0, FALSE) \o <<"A", EMOJI>>
                 \o rgb(128, 0, 128, FALSE) \o <<"A">> \o AnsiReset

\* C15: a "(TEXT)gb(colors)" span gives every unit an escape of the
\* background form ESC[48;2;R;G;Bm, a "(TEXT)gd(colors)" span one of the
\* foreground form ESC[38;2;R;G;Bm.
C15_BackgroundGradient ==
  /\ (AfterKit(8) /\ ~nocolor
        /\ OccursAt(texts[1].s, <<")", "g", "d", "(">>,
                    FirstOf(texts[1].s, 1, {")"})) =>
        \A i \in 1..Len(UnitColours(current, 1)) :
          UnitColours(current, 1)[i].form = "3")
  /\ (AfterKit(9) /\ ~nocolor
        /\ OccursAt(texts[1].s, <<")", "g", "b", "(">>,
                    FirstOf(texts[1].s, 1, {")"})) =>
        \A i \in 1..Len(UnitColours(current, 1)) :
          UnitColours(current, 1)[i].form = "4")

\* A call with colours suppressed, the built-in kits only, and inputs that
\* are strings without ESC.
PlainCall ==
  /\ pc \in {"loop", "done"}
  /\ nocolor
  /\ extraformats = <<>>
  /\ \A i \in 1..Len(texts) : texts[i].t = "str" /\ CountChar(texts[i].s, ESC) = 0

C17_EveryPair ==
  pc = "done" /\ calls = 1 =>
    \A n \in 0..MaxPairs :
      texts = <<StrV(Repeat(<<"*", "a", "*", " ">>, n))>> =>
        /\ CountChar(result, "*") = 0
        /\ (nocolor => result = Repeat(<<"a", " ">>, n))
        /\ (~nocolor => result = Repeat(colorpik(N_bold, <<"a">>) \o <<" ">>, n))

\* C18: a call made again with the same inputs, kits and flag returns
\* what it returned before, whatever ran between the two calls.
C18_Deterministic ==
  pc = "done" /\ calls = 3 => result = prev


\* The ranks of the levels.
Rank == [debug |-> 4, info |-> 3, warn |-> 2, error |-> 1, trace |-> 1]

\* The configuration the log call was made in.
LoggedConfig == allconfigs(configs, loggers[logged.logger].configs)

\* The console is enabled, the level is not txt and its rank is at most
\* that of the console level, or of the level when none is set.
Admitted ==
  /\ LoggedConfig.console
  /\ logged.level # "txt"
  /\ Rank[logged.level]
       <= Rank[IF "console_level" \in DOMAIN LoggedConfig
               THEN LoggedConfig.console_level ELSE LoggedConfig.level]

\* Exactly one write when the call is admitted, none otherwise.
Gated == IF Admitted THEN Len(written) = 1 ELSE written = <<>>

\* C19 as stated: a log call makes exactly one write when the console is
\* enabled, the level is not txt and rank(level) <= rank(console level or
\* level), none otherwise; the write goes to stderr for error and warn and
\* to stdout for every other level.
C19_ConsoleSink ==
  logged # None =>
    /\ Gated
    /\ written # <<>> =>
         written[1].stream
           = (IF logged.level \in {"error", "warn"} THEN "stderr" ELSE "stdout")

\* C19: a log call makes exactly one write when the console is enabled, the
\* level is not txt and rank(level) <= rank(console level or level), none
\* otherwise; under Node, Bun and Deno the write goes to stderr of the
\* runtime for error and warn and to its stdout for every other level, and
\* under Browser it is the call console[level](message).
C19_ConsoleSinkByRuntime ==
  logged # None =>
    /\ Gated
    /\ written # <<>> =>
         IF runtime = "Browser"
         THEN written[1].sink = "console" /\ written[1].stream = logged.level
         ELSE /\ written[1].sink
                   = (IF runtime = "Node" THEN "process" ELSE runtime)
              /\ written[1].stream
                   = (IF logged.level \in {"error", "warn"}
                      THEN "stderr" ELSE "stdout")

\* A warning that the configuration admits went, under Browser, to
\* console.warn.
C19_Witness ==
  /\ logged # None
  /\ runtime = "Browser"
  /\ logged.level = "warn"
  /\ Admitted
  /\ Len(written) = 1
  /\ written[1].sink = "console"
  /\ written[1].stream = "warn"

\* C20: every key of Lggs.configs that an instance does not set itself has
\* in the allconfigs of the instance the value Lggs.configs gives it.
C20_GlobalConfig ==
  \A i \in 1..Len(loggers) :
    \A key \in DOMAIN configs \ DOMAIN loggers[i].configs :
      allconfigs(configs, loggers[i].configs)[key] = configs[key]

\* C24: a segment whose first round of all kits ends with the text it
\* started with gets no second round (with the extra kits add and undo, of
\* which the second undoes the first, exactly one round runs).
C24_QuietRoundEnds ==
  /\ pc = "loop" /\ RoundFrom(tools, nocolor, output[seg], 1) = output[seg]
       => iterations = 0
  /\ pc = "done" /\ extraformats = <<"add", "undo">> /\ Len(output) = 1
       => iterations = 1


\* The gradient loop with the lookups of the stops clamped:
\* stops[min(index, sections)] and stops[min(index + 1, sections)].
RECURSIVE ClampedLoop(_, _, _, _, _)
ClampedLoop(n, i, stops, sections, section_length) ==
  IF i >= n THEN <<>>
  ELSE interpolate(stops[Min(i \div section_length, sections) + 1],
                   stops[Min(i \div section_length + 1, sections) + 1],
                   i - (i \div section_length) * section_length, section_length)
         \o <<"A">>
         \o ClampedLoop(n, i + 1, stops, sections, section_length)

\* Every unit position of n units over the stops falls into a section that
\* exists, with a factor in [0, 1).
InSections(n, sections, section_length) ==
  \A i \in 0..(n - 1) :
    /\ i \div section_length \in 0..(sections - 1)
    /\ i - (i \div section_length) * section_length \in 0..(section_length - 1)

\* C28: for N >= 1 scalar units and any number of stops (one stop counting
\* as two), every unit position i < N has 0 <= floor(i / section_length)
\* <= sections - 1 and a factor in [0, 1), and the rendering with the
\* unclamped lookups is the rendering with the lookups clamped.
C28_StopLookup ==
  AfterKit(8) /\ ~nocolor =>
    \A n \in 1..MaxUnits, k \in 1..MaxStops :
      texts[1].s = GradientStr(Repeat(<<"A">>, n), "d", StopList(k))
      => /\ Len(GradientStops(StopList(k))) = Max(k, 2)
         /\ InSections(n, Max(k, 2) - 1, CeilDiv(n, Max(k, 2) - 1))
         /\ current = ClampedLoop(n, 0, GradientStops(StopList(k)), Max(k, 2) - 1,
                                  CeilDiv(n, Max(k, 2) - 1))
                        \o AnsiReset

\* Two units over four stops: section_length is 1 and the units take the
\* first and the second stop.
C28_Witness ==
  /\ AfterKit(8) /\ ~nocolor
  /\ texts[1].s = GradientStr(<<"A", "A">>, "d", StopList(4))
  /\ current = rgb(255, 0, 0, FALSE) \o <<"A">> \o rgb(0, 0, 255, FALSE)
                 \o <<"A">> \o AnsiReset

\* C21: instance.plugin(p) adds p to that instance only: the call leaves the
\* static plugins of the class and the plugins of every other instance as
\* they were, in both classes and whatever the instance was created with.
C21_PluginOnInstanceOnly ==
  [][ logged'.op = "plugin" =>
        /\ arrays'[1] = arrays[1]
        /\ \A j \in 1..Len(loggers) :
             j # logged'.logger =>
               arrays'[loggers[j].plugins] = arrays[loggers[j].plugins] ]_vars

\* Whether the plugin p is in the array.
InArray(p, array) == \E k \in 1..Len(array) : array[k] = p

\* Whether the hook of the plugin p was called in the latest operation.
HookRan(p, hook) ==
  \E h \in 1..Len(hooks) : hooks[h].plugin = p.name /\ hooks[h].hook = hook

\* C23: after the constructor, in the options form and in the legacy form,
\* every plugin of the plugins given is in instance.plugins and has had its
\* onInit called.
C23_ConstructorPlugins ==
  (logged # None /\ logged.op = "new" /\ logged.given # None) =>
    \A k \in 1..Len(logged.given.some) :
      /\ InArray(logged.given.some[k], arrays[loggers[logged.logger].plugins])
      /\ logged.given.some[k].onInit => HookRan(logged.given.some[k], "onInit")

\* Whether the latest operation was a log call.
IsLog == logged # None /\ logged.op = "log"

\* C25: in one controller call the hooks of a plugin run in the order
\* onPreMessage, onMessage, onSend: an onPreMessage that returned undefined
\* is followed by no onMessage or onSend of that plugin, the other plugins
\* still running; an onMessage is the first hook of its plugin or
\* follows its onPreMessage; an onSend follows the onMessage of the same
\* plugin and receives the string that onMessage returned.
C25_HookOrder ==
  IsLog =>
    \A h \in 1..Len(hooks) :
      /\ hooks[h].hook = "onPreMessage" =>
           /\ \A g \in 1..(h - 1) : hooks[g].plugin # hooks[h].plugin
           /\ hooks[h].ret = None =>
                \A g \in (h + 1)..Len(hooks) : hooks[g].plugin # hooks[h].plugin
      /\ hooks[h].hook = "onMessage" =>
           \/ \A g \in 1..(h - 1) : hooks[g].plugin # hooks[h].plugin
           \/ /\ hooks[h - 1].plugin = hooks[h].plugin
              /\ hooks[h - 1].hook = "onPreMessage"
              /\ hooks[h - 1].ret = Some(hooks[h].arg.messages)
      /\ hooks[h].hook = "onSend" =>
           /\ h > 1
           /\ hooks[h - 1].plugin = hooks[h].plugin
           /\ hooks[h - 1].hook = "onMessage"
           /\ hooks[h - 1].ret = Some(hooks[h].arg.message)

\* A log call in which a plugin dropped the message in onPreMessage and the
\* plugin after it ran its three hooks.
C25_Witness ==
  /\ IsLog
  /\ \E h \in 1..Len(hooks) :
       /\ hooks[h].hook = "onPreMessage" /\ hooks[h].ret = None
       /\ h + 3 <= Len(hooks)
       /\ hooks[h + 1].hook = "onPreMessage"
       /\ hooks[h + 2].hook = "onMessage"
       /\ hooks[h + 3].hook = "onSend"
       /\ hooks[h + 3].plugin = hooks[h + 1].plugin

\* The plugins loaded for the instance of the latest log call.
LoadedForLog == Loaded(arrays, loggers[logged.logger])

\* The place of the plugin named name among the plugins loaded, 0 if none.
PlaceOf(name, loaded) ==
  IF \E k \in 1..Len(loaded) : loaded[k].name = name
  THEN CHOOSE k \in 1..Len(loaded) : loaded[k].name = name
  ELSE 0

\* C26: when a hook of a plugin throws in a controller call and the plugin
\* has an onError, onError is called once, right after, no other hook of the
\* plugin runs afterwards and every plugin after it still runs (up to one
\* that throws without an onError); when the plugin has no onError, the
\* exception leaves the call and no hook of any plugin runs after the hook
\* that threw.
C26_ErrorIsolation ==
  IsLog =>
    \A h \in 1..Len(hooks) :
      hooks[h].ret = Threw =>
        IF LoadedForLog[PlaceOf(hooks[h].plugin, LoadedForLog)].onError
        THEN /\ h < Len(hooks)
             /\ hooks[h + 1].plugin = hooks[h].plugin
             /\ hooks[h + 1].hook = "onError"
             /\ \A g \in (h + 2)..Len(hooks) : hooks[g].plugin # hooks[h].plugin
             /\ \A k \in (PlaceOf(hooks[h].plugin, LoadedForLog) + 1)..Len(LoadedForLog) :
                  \/ \E g \in (h + 2)..Len(hooks) :
                       hooks[g].plugin = LoadedForLog[k].name
                  \/ /\ thrown
                     /\ PlaceOf(hooks[Len(hooks)].plugin, LoadedForLog) < k
                     /\ PlaceOf(hooks[Len(hooks)].plugin, LoadedForLog)
                          > PlaceOf(hooks[h].plugin, LoadedForLog)
        ELSE /\ thrown
             /\ h = Len(hooks)

\* A log call in which a plugin with onError threw and the plugin after it
\* sent the message.
C26_Witness ==
  /\ IsLog
  /\ ~thrown
  /\ \E h \in 1..Len(hooks) :
       /\ hooks[h].ret = Threw
       /\ hooks[h + 1].hook = "onError"
       /\ \E g \in (h + 2)..Len(hooks) : hooks[g].hook = "onSend"

\* A log call that ended with the exception of a plugin without onError,
\* a plugin loaded after it.
C26_WitnessThrown ==
  /\ IsLog
  /\ thrown
  /\ PlaceOf(hooks[Len(hooks)].plugin, LoadedForLog) < Len(LoadedForLog)

\* The last plugin of the array with the ident.
LastWith(ident, array) ==
  array[CHOOSE k \in 1..Len(array) :
          /\ array[k].ident = ident
          /\ \A j \in (k + 1)..Len(array) : array[j].ident # ident]

\* The registered plugin that wins for the ident: the last of the instance,
\* or else the last of the static plugins.
Winner(ident, static_plugins, instance_plugins) ==
  IF \E k \in 1..Len(instance_plugins) : instance_plugins[k].ident = ident
  THEN LastWith(ident, instance_plugins)
  ELSE LastWith(ident, static_plugins)

\* Whether loaded holds, once each, the winners of the idents of the
\* static plugins and of the instance plugins.
OnePerIdent(loaded, static_plugins, instance_plugins) ==
  /\ \A a, b \in 1..Len(loaded) : loaded[a].ident = loaded[b].ident => a = b
  /\ \A k \in 1..Len(loaded) :
       loaded[k] = Winner(loaded[k].ident, static_plugins, instance_plugins)
  /\ \A k \in 1..Len(static_plugins \o instance_plugins) :
       \E a \in 1..Len(loaded) :
         loaded[a].ident = (static_plugins \o instance_plugins)[k].ident

\* C27: pluginLoader keeps one plugin per ident. After any registrations, for
\* every instance, it loads one plugin for each ident registered, the one
\* registered last, an instance plugin before a static one; with nostatic
\* only the instance plugins count; and the hooks of a controller call are
\* those of the loaded plugins, any two of them of different idents.
C27_OnePerIdent ==
  \A i \in 1..Len(loggers) :
    /\ OnePerIdent(pluginLoader(arrays[1], arrays[loggers[i].plugins], FALSE),
                   arrays[1], arrays[loggers[i].plugins])
    /\ OnePerIdent(pluginLoader(arrays[1], arrays[loggers[i].plugins], TRUE),
                   <<>>, arrays[loggers[i].plugins])
    /\ (IsLog /\ logged.logger = i) =>
         \A g, h \in 1..Len(hooks) :
           /\ PlaceOf(hooks[h].plugin, Loaded(arrays, loggers[i])) > 0
           /\ hooks[g].plugin # hooks[h].plugin =>
                Loaded(arrays, loggers[i])[PlaceOf(hooks[g].plugin,
                                                   Loaded(arrays, loggers[i]))].ident
                  # Loaded(arrays, loggers[i])[PlaceOf(hooks[h].plugin,
                                                     Loaded(arrays, loggers[i]))].ident

\* A log call of an instance that has a plugin of the ident of a static
\* plugin: the hooks of the plugin of the instance ran, not those of the
\* static one.
C27_Witness ==
  /\ IsLog
  /\ InArray(PluginA, arrays[loggers[logged.logger].plugins])
  /\ ~InArray(PluginDrop, arrays[loggers[logged.logger].plugins])
  /\ InArray(PluginDrop, arrays[1])
  /\ Winner("a", arrays[1], arrays[loggers[logged.logger].plugins]) = PluginA
  /\ HookRan(PluginA, "onSend")
  /\ ~HookRan(PluginDrop, "onPreMessage")

\* C29: all plugins of one controller call see the same configuration: the
\* level of the configuration handed to every hook of the plugins after the
\* console plugin is the level allconfigs has at the start of the call.
C29_SameConfig ==
  IsLog =>
    \A h \in 1..Len(hooks) :
      hooks[h].plugin # ConsolePlugin.name =>
        hooks[h].level = AllConfigs(arrays, loggers[logged.logger]).level

\* The configuration of the instance of the console specification.
ConsoleConfig == allconfigs(configs, loggers[1].configs)

\* The frame of the line of the latest log call: the format with all but
\* {message} put in.
FrameLogged == Framed(runtime, ConsoleConfig, logged.level, logged.now)

\* C22: the line the console plugin hands to the sink, for a message text m
\* without tag, delimiter or placeholder logged at a level that passes the
\* gate with colours disabled, is the frame with m itself, verbatim, in the
\* place of {message}.
C22_MessageVerbatim ==
  (IsLog /\ Len(loggers) = 1 /\ "text" \in DOMAIN logged
     /\ ConsoleConfig.disable_colors /\ written # <<>>) =>
    written[1].text =
      SubSeq(FrameLogged, 1, IndexOf(FrameLogged, Braced(K_message)) - 1)
        \o logged.text
        \o SubSeq(FrameLogged,
                  IndexOf(FrameLogged, Braced(K_message)) + Len(Braced(K_message)),
                  Len(FrameLogged))

=============================================================================
